---- MODULE Spec2Model ----
(***************************************************************************)
(* Point-scanning acquisition (pysrs).                                     *)
(*                                                                         *)
(* Part I  : the hardware transaction functions raster_scan and            *)
(*           raster_scan_with_ttl of new_mains/run_image_2d.py and         *)
(*           acquire_response of standalones/calib_galvos.py, statement    *)
(*           by statement, against a driver whose every call may raise.    *)
(* Part II : the acquisition threads of mains/acquisition.py (start_scan,  *)
(*           stop_scan, scan, acquire, acquire_multiple,                   *)
(*           acquire_hyperspectral) sharing the gui flags.                 *)
(* Part III: the fixed-dwell reconstruction at the end of raster_scan      *)
(*           (reshape, mean, crop), as a function of what the input        *)
(*           channels delivered.                                           *)
(* Part IV : the modulation signal of the reference transactions           *)
(*           raster_scan_rpoc and variable_scan_rpoc of old_utils/run.py,  *)
(*           as a function of the mask.                                    *)
(* Part V  : save_images of mains/acquisition.py, as a function of the     *)
(*           batch, the channel labels and the files already on disk.      *)
(* Part VI : the ROI editor of mains/pyqt_rpoc.py: the event handlers of   *)
(*           ImageViewer and MainWindow.delete_roi_row, which all run on   *)
(*           the one interface thread.                                     *)
(***************************************************************************)
EXTENDS Naturals, Integers, Sequences, FiniteSets, TLC

\* ------------------------------------------------------------------------
\* Bounds of the model
\* ------------------------------------------------------------------------
\* most channels of one kind (galvo.ao_chans, ai_channels) in one call
MaxChans == 2
\* largest galvo.total_samples / waveform length
MaxSamples == 3
\* scan worker threads that can be alive at once
MaxWorkers == 2
\* largest number of frames (numshifts) asked of one acquire
MaxShifts == 2
\* largest galvo.numsteps_x
MaxStepsX == 4
\* largest galvo.numsteps_y
MaxStepsY == 2
\* largest galvo.extrasteps_left, galvo.extrasteps_right
MaxExtra == 1
\* largest galvo.pixel_samples
MaxPixelSamples == 3
\* largest numsteps_x and numsteps_y of a scan with a mask
MaxMaskSteps == 2
\* largest dwell_multiplier
MaxDwell == 2
\* largest number of frames handed to save_images
MaxFrames == 2
\* ROIs completed in one session of the editor
MaxRois == 3

VARIABLES
    \* ---- Part I: one call of a transaction function
    call,               \* arguments of the call in progress (fn, galvo fields)
    phase,              \* "idle" | "body" | "returned" | "raised"
    pc,                 \* index of the next statement of the with-body
    task,               \* ao_task / ai_task / do_task as the driver sees them
    log,                \* driver calls made so far, in order
    err,                \* the exception that left the with-block, or "none"
    ttl_signal,         \* run_image_2d.py:116-117
    lineGroupingBound,  \* does the module's namespace bind LineGrouping
    \* ---- Part II: the gui object and the threads of acquisition.py
    running,            \* gui.running
    acquiring,          \* gui.acquiring
    button,             \* state of continuous_button, single_button, stop_button
    worker,             \* the threads start_scan created, each running scan
    acq,                \* the thread running acquire
    \* ---- Part III: one reconstruction
    recon,              \* arguments, acq_data, data2d and results of the call
    \* ---- Part IV: one encoding of a mask
    enc,                \* arguments, padded_mask, ttl_signal, sample counts
    \* ---- Part V: one call of save_images
    sav,                \* arguments, the files on disk, the files written
    \* ---- Part VI: the ROI editor
    viewer,             \* the ImageViewer and the table it shares
    \* ---- Part II, the interface thread
    ui                  \* the last call of start_scan and what it reported

\* the state of the parts that follow Part IV, and the record of the
\* interface thread
tailVars == <<sav, viewer, ui>>

\* the state of the pure computations
pureVars == <<recon, enc, tailVars>>

txnOwn == <<call, phase, pc, task, log, err, ttl_signal, lineGroupingBound>>

txnVars == <<txnOwn, pureVars>>

guiVars == <<running, acquiring, button>>

acqOwn == <<running, acquiring, button, worker, acq>>

acqVars == <<acqOwn, pureVars>>

vars == <<txnVars, acqVars>>

\* ========================================================================
\* Part I. new_mains/run_image_2d.py, standalones/calib_galvos.py
\* ========================================================================

TaskNames == {"ao", "ai", "do"}

Functions == {"raster_scan", "raster_scan_with_ttl", "acquire_response"}

\* the devices a channel name can begin with
Devices == {"Dev1", "Dev2"}

\* calib_galvos.py line 12: config['ao_channel'].split('/')[0]
ConfigAoDevice == "Dev1"

\* sample rates (galvo.rate, rate)
Rates == {1, 2}

\* a task nobody has created yet
NoTask ==
    [created |-> FALSE, released |-> FALSE, chans |-> 0, source |-> "none",
     samps |-> 0, written |-> FALSE, auto_start |-> FALSE, started |-> FALSE,
     done |-> FALSE, device |-> "none", clk_device |-> "none", rate |-> 0]

NoCall ==
    [fn |-> "none", n_ao |-> 0, n_ai |-> 0, total_samples |-> 0, wave_len |-> 0,
     device |-> "none", rate |-> 0]

Stmt(op, t, line, source, samps) ==
    [op |-> op, task |-> t, line |-> line, source |-> source, samps |-> samps]

\* a for-loop over n channels: the same statement n times
Rep(s, n) == [i \in 1..n |-> s]

\* the tasks the with-statement of a function creates, in order
TasksOf(fn) ==
    IF fn = "raster_scan" THEN <<"ao", "ai">>
    ELSE IF fn = "raster_scan_with_ttl" THEN <<"ao", "ai", "do">>
    ELSE IF fn = "acquire_response" THEN <<"ao", "ai">>
    ELSE << >>

\* (mutant) the AO timing configured once, with the waveform length
raster_scan_config_waveformLength(c) ==
    <<Stmt("Task", "ao", 14, "", 0), Stmt("Task", "ai", 14, "", 0)>>
    \o Rep(Stmt("add_ao_voltage_chan", "ao", 20, "", 0), c.n_ao)
    \o <<Stmt("cfg_samp_clk_timing", "ao", 21, "internal", c.wave_len)>>
    \o Rep(Stmt("add_ai_voltage_chan", "ai", 29, "", 0), c.n_ai)
    \o <<Stmt("cfg_samp_clk_timing", "ai", 36, "ao/SampleClock", c.total_samples)>>

\* raster_scan, lines 14-41: the with-statement, channels and timing
raster_scan_config(c) ==
    <<Stmt("Task", "ao", 14, "", 0), Stmt("Task", "ai", 14, "", 0)>>
    \o Rep(Stmt("add_ao_voltage_chan", "ao", 20, "", 0), c.n_ao)
    \o <<Stmt("cfg_samp_clk_timing", "ao", 21, "internal", c.wave_len)>>
    \o Rep(Stmt("add_ai_voltage_chan", "ai", 29, "", 0), c.n_ai)
    \o <<Stmt("cfg_samp_clk_timing", "ao", 31, "internal", c.total_samples),
         Stmt("cfg_samp_clk_timing", "ai", 36, "ao/SampleClock", c.total_samples)>>

\* (mutant) the master output task started before the acquisition task
raster_scan_run_masterFirst(c) ==
    <<Stmt("write", "ao", 43, "", 0),
      Stmt("start", "ao", 45, "", 0),
      Stmt("start", "ai", 44, "", 0),
      Stmt("wait_until_done", "ao", 47, "", 0),
      Stmt("wait_until_done", "ai", 48, "", 0),
      Stmt("read", "ai", 50, "", c.total_samples)>>

\* raster_scan, lines 43-50: write, start, wait, read
raster_scan_run(c) ==
    <<Stmt("write", "ao", 43, "", 0),
      Stmt("start", "ai", 44, "", 0),
      Stmt("start", "ao", 45, "", 0),
      Stmt("wait_until_done", "ao", 47, "", 0),
      Stmt("wait_until_done", "ai", 48, "", 0),
      Stmt("read", "ai", 50, "", c.total_samples)>>

raster_scan_body(c) == raster_scan_config(c) \o raster_scan_run(c)

\* raster_scan_with_ttl, lines 86-125
raster_scan_with_ttl_config(c) ==
    <<Stmt("Task", "ao", 86, "", 0), Stmt("Task", "ai", 86, "", 0),
      Stmt("Task", "do", 86, "", 0)>>
    \o Rep(Stmt("add_ao_voltage_chan", "ao", 92, "", 0), c.n_ao)
    \o <<Stmt("cfg_samp_clk_timing", "ao", 93, "internal", c.wave_len)>>
    \o Rep(Stmt("add_ai_voltage_chan", "ai", 101, "", 0), c.n_ai)
    \o <<Stmt("cfg_samp_clk_timing", "ao", 103, "internal", c.total_samples),
         Stmt("cfg_samp_clk_timing", "ai", 108, "ao/SampleClock", c.total_samples),
         Stmt("ttl_signal", "do", 116, "", c.total_samples),
         Stmt("add_do_chan", "do", 119, "", 0),
         Stmt("cfg_samp_clk_timing", "do", 120, "ao/SampleClock", c.total_samples)>>

\* (mutant) the read-back issued without waiting for the modulation task
raster_scan_with_ttl_run_noDoWait(c) ==
    <<Stmt("write", "ao", 127, "", 0),
      Stmt("write", "do", 128, "", 0),
      Stmt("start", "ai", 130, "", 0),
      Stmt("start", "ao", 131, "", 0),
      Stmt("start", "do", 132, "", 0),
      Stmt("wait_until_done", "ao", 134, "", 0),
      Stmt("wait_until_done", "ai", 135, "", 0),
      Stmt("read", "ai", 138, "", c.total_samples)>>

\* raster_scan_with_ttl, lines 127-138
raster_scan_with_ttl_run(c) ==
    <<Stmt("write", "ao", 127, "", 0),
      Stmt("write", "do", 128, "", 0),
      Stmt("start", "ai", 130, "", 0),
      Stmt("start", "ao", 131, "", 0),
      Stmt("start", "do", 132, "", 0),
      Stmt("wait_until_done", "ao", 134, "", 0),
      Stmt("wait_until_done", "ai", 135, "", 0),
      Stmt("wait_until_done", "do", 136, "", 0),
      Stmt("read", "ai", 138, "", c.total_samples)>>

raster_scan_with_ttl_body(c) ==
    raster_scan_with_ttl_config(c) \o raster_scan_with_ttl_run(c)

\* calib_galvos.py, acquire_response, lines 39-56
acquire_response_body(c) ==
    <<Stmt("Task", "ao", 39, "", 0), Stmt("Task", "ai", 39, "", 0),
      Stmt("add_ao_voltage_chan", "ao", 40, "", 0),
      Stmt("add_ai_voltage_chan", "ai", 41, "", 0),
      Stmt("cfg_samp_clk_timing", "ao", 43, "internal", c.total_samples),
      Stmt("cfg_samp_clk_timing", "ai", 46, "ao/SampleClock", c.total_samples),
      Stmt("write", "ao", 51, "", 0),
      Stmt("start", "ai", 52, "", 0),
      Stmt("start", "ao", 53, "", 0),
      Stmt("wait_until_done", "ao", 54, "", 0),
      Stmt("wait_until_done", "ai", 55, "", 0),
      Stmt("read", "ai", 56, "", c.total_samples)>>

Body(c) ==
    IF c.fn = "raster_scan" THEN raster_scan_body(c)
    ELSE IF c.fn = "raster_scan_with_ttl" THEN raster_scan_with_ttl_body(c)
    ELSE IF c.fn = "acquire_response" THEN acquire_response_body(c)
    ELSE << >>

\* the device in the name of the channel statement s adds: the AO and DO
\* names are built from galvo.device (run_image_2d.py lines 20, 92, 119), the
\* AO name of acquire_response is its argument ao_channel; the AI names are
\* the caller's
ChannelDevice(c, s) ==
    IF s.op \in {"add_ao_voltage_chan", "add_do_chan"} THEN c.device ELSE "caller"

\* the device in the source argument of the timing statement s:
\* f'/{galvo.device}/ao/SampleClock' (run_image_2d.py lines 38, 110, 122),
\* f'/{config['ao_channel'].split('/')[0]}/ao/SampleClock' (calib_galvos.py
\* line 47); none when no source is given
ClockDevice(c, s) ==
    IF s.source = "internal" THEN "none"
    ELSE IF c.fn = "acquire_response" THEN ConfigAoDevice
    ELSE c.device

\* the statement about to run
Cur == Body(call)[pc]

At(op) == phase = "body" /\ pc <= Len(Body(call)) /\ Cur.op = op

\* the calls that go to the driver (and so may raise a driver error)
DriverOps ==
    {"Task", "add_ao_voltage_chan", "add_ai_voltage_chan", "add_do_chan",
     "cfg_samp_clk_timing", "write", "start", "wait_until_done", "read"}

Event(s, ok) == [op |-> s.op, task |-> s.task, ok |-> ok]

\* (mutant) tasks closed by hand at the end of the block: skipped on a raise
ExitWith_onlyOnSuccess(t, raised) ==
    [k \in TaskNames |->
        IF t[k].created /\ ~raised THEN [t[k] EXCEPT !.released = TRUE] ELSE t[k]]

\* lines 14/86: leaving the with-block (Task.__exit__) closes every task the
\* with-statement has entered, whether the block ended or raised
ExitWith(t, raised) ==
    [k \in TaskNames |->
        IF t[k].created THEN [t[k] EXCEPT !.released = TRUE] ELSE t[k]]

\* (mutant) the split point rounded up instead of down
TtlSignal_roundUp(n) == [i \in 1..n |-> IF i - 1 < (n + 1) \div 2 THEN 1 ELSE 0]

\* lines 116-117: zeros, then the first total_samples // 2 entries set to 1
TtlSignal(n) == [i \in 1..n |-> IF i - 1 < n \div 2 THEN 1 ELSE 0]

InitTxn ==
    /\ call = NoCall
    /\ phase = "idle"
    /\ pc = 0
    /\ task = [k \in TaskNames |-> NoTask]
    /\ log = << >>
    /\ err = "none"
    /\ ttl_signal = << >>
    /\ lineGroupingBound \in BOOLEAN

\* a caller invokes raster_scan(ai_channels, galvo), raster_scan_with_ttl(...)
\* or acquire_response(ao_channel, ai_channel, waveform, rate), which has one
\* channel of each kind and total_samples = len(waveform)
Call ==
    /\ phase = "idle"
    /\ \E f \in Functions, nao \in 1..MaxChans, nai \in 1..MaxChans,
          ts \in 1..MaxSamples, wl \in 1..MaxSamples,
          dev \in Devices, rate \in Rates :
          /\ f = "acquire_response" => nao = 1 /\ nai = 1 /\ wl = ts
          /\ call' = [fn |-> f, n_ao |-> nao, n_ai |-> nai,
                      total_samples |-> ts, wave_len |-> wl,
                      device |-> dev, rate |-> rate]
    /\ phase' = "body"
    /\ pc' = 1
    /\ task' = [k \in TaskNames |-> NoTask]
    /\ log' = << >>
    /\ err' = "none"
    /\ ttl_signal' = << >>
    /\ UNCHANGED <<lineGroupingBound, acqVars>>

\* the statement at pc ran without raising
Advance ==
    /\ pc' = pc + 1
    /\ log' = Append(log, Event(Cur, TRUE))
    /\ UNCHANGED <<call, phase, err, lineGroupingBound, acqVars>>

\* the statement at pc raised e: the with-block is left through __exit__
Raise(e) ==
    /\ phase' = "raised"
    /\ err' = e
    /\ log' = Append(log, Event(Cur, FALSE))
    /\ task' = ExitWith(task, TRUE)
    /\ UNCHANGED <<call, pc, ttl_signal, lineGroupingBound, acqVars>>

\* nidaqmx.Task() in the with-statement
CreateTask ==
    /\ At("Task")
    /\ task' = [task EXCEPT ![Cur.task].created = TRUE]
    /\ Advance
    /\ UNCHANGED ttl_signal

\* add_ao_voltage_chan / add_ai_voltage_chan, one loop iteration
AddChannel ==
    /\ At("add_ao_voltage_chan") \/ At("add_ai_voltage_chan")
    /\ task' = [task EXCEPT ![Cur.task].chans = @ + 1,
                            ![Cur.task].device = ChannelDevice(call, Cur)]
    /\ Advance
    /\ UNCHANGED ttl_signal

\* task.timing.cfg_samp_clk_timing(rate, [source], FINITE, samps_per_chan):
\* a later configuration of the same task replaces the earlier one
CfgSampClkTiming ==
    /\ At("cfg_samp_clk_timing")
    /\ task' = [task EXCEPT ![Cur.task].source = Cur.source,
                            ![Cur.task].samps = Cur.samps,
                            ![Cur.task].clk_device = ClockDevice(call, Cur),
                            ![Cur.task].rate = call.rate]
    /\ Advance
    /\ UNCHANGED ttl_signal

\* lines 116-117
BuildTtlSignal ==
    /\ At("ttl_signal")
    /\ ttl_signal' = TtlSignal(Cur.samps)
    /\ Advance
    /\ UNCHANGED task

\* line 119: the argument LineGrouping.CHAN_PER_LINE is evaluated first; the
\* module imports only AcquisitionType (lines 1-4), so the lookup raises
\* NameError unless the importing program has bound the name in the module
AddDoChan ==
    /\ At("add_do_chan")
    /\ IF lineGroupingBound
       THEN /\ task' = [task EXCEPT ![Cur.task].chans = @ + 1,
                                    ![Cur.task].device = ChannelDevice(call, Cur)]
            /\ Advance
            /\ UNCHANGED ttl_signal
       ELSE Raise("NameError")

\* task.write(data, auto_start=False)
Write ==
    /\ At("write")
    /\ task' = [task EXCEPT ![Cur.task].written = TRUE,
                            ![Cur.task].auto_start = FALSE]
    /\ Advance
    /\ UNCHANGED ttl_signal

\* task.start()
Start ==
    /\ At("start")
    /\ task' = [task EXCEPT ![Cur.task].started = TRUE]
    /\ Advance
    /\ UNCHANGED ttl_signal

\* task.wait_until_done(timeout=total_samples / rate + 5) returned
WaitUntilDone ==
    /\ At("wait_until_done")
    /\ task' = [task EXCEPT ![Cur.task].done = TRUE]
    /\ Advance
    /\ UNCHANGED ttl_signal

\* ai_task.read(number_of_samples_per_channel=total_samples)
Read ==
    /\ At("read")
    /\ Advance
    /\ UNCHANGED <<task, ttl_signal>>

\* any driver call may raise: a DaqError, or for wait_until_done a timeout
DriverFault ==
    /\ phase = "body" /\ pc <= Len(Body(call))
    /\ Cur.op \in DriverOps
    /\ \E e \in {"DaqError", "timeout"} :
          /\ e = "timeout" => Cur.op = "wait_until_done"
          /\ Raise(e)

\* the with-block ran to its end: __exit__, then lines 52-74 / 140-160 return
Return ==
    /\ phase = "body" /\ pc = Len(Body(call)) + 1
    /\ phase' = "returned"
    /\ task' = ExitWith(task, FALSE)
    /\ UNCHANGED <<call, pc, log, err, ttl_signal, lineGroupingBound, acqVars>>

NextTxn ==
    \/ Call
    \/ CreateTask
    \/ AddChannel
    \/ CfgSampClkTiming
    \/ BuildTtlSignal
    \/ AddDoChan
    \/ Write
    \/ Start
    \/ WaitUntilDone
    \/ Read
    \/ DriverFault
    \/ Return

\* ========================================================================
\* Part II. mains/acquisition.py
\* ========================================================================
\* start_scan and stop_scan are handlers of the interface thread; scan runs
\* on the thread start_scan creates; acquire runs on a thread of its own
\* (stop_scan can reach a running acquire only so: line 146 reads a flag
\* that nothing but stop_scan clears).  Every .get() of an interface
\* variable returns whatever the user has set by then.

Workers == 1..MaxWorkers

\* values gui.rpoc_mode_var.get() can return
Modes == {"standard", "variable", "other"}

\* the scans that run a hardware transaction (generate_data does not)
HwKinds == {"raster", "rpoc", "variable"}

NoWorker ==
    [pc |-> "none", mask |-> FALSE, kind |-> "none", rpoc_on |-> FALSE,
     data |-> "unbound",
     reported |-> FALSE, raised |-> FALSE,
     exc |-> "none", thrown |-> << >>, shown |-> << >>]

NoAcquire ==
    [pc |-> "idle", startup |-> FALSE, batch |-> "none", filename |-> "None",
     numshifts |-> 0, i |-> 0, kind |-> "none", rpoc_on |-> FALSE,
     data |-> 0, images |-> << >>,
     ret |-> "pending", ok |-> {}, raised |-> {}, failed |-> {},
     reported |-> FALSE, rejected |-> FALSE, stage_error |-> FALSE,
     saved |-> FALSE, broke |-> FALSE,
     asked |-> [read |-> FALSE, save |-> FALSE, name |-> "unread",
                steps |-> << >>],
     notice |-> << >>, moved |-> << >>, scanned |-> << >>,
     exc |-> "none", thrown |-> << >>, shown |-> << >>]

DigitChars == <<"0", "1", "2", "3", "4", "5", "6", "7", "8", "9">>

\* str(n) of a natural number: its decimal digits
RECURSIVE str(_)
str(n) ==
    IF n < 10 THEN <<DigitChars[n + 1]>>
    ELSE str(n \div 10) \o <<DigitChars[(n % 10) + 1]>>

\* what an entry holding the number of frames can read once stripped
\* (lines 94, 100, 103, 109): nothing, a word, or the digits of a number
StepEntries == {<< >>, <<"x">>} \cup {str(n) : n \in 0..MaxShifts}

\* line 114: int(numshifts_str) raises ValueError unless the string is the
\* digits of a number
int(s) ==
    IF \E n \in 0..MaxShifts : str(n) = s
    THEN [raised |-> FALSE, number |-> CHOOSE n \in 0..MaxShifts : str(n) = s]
    ELSE [raised |-> TRUE, number |-> 0]

\* (mutant) a check of the frame count that lets zero through
ValidSteps_zeroAllowed(s) == ~int(s).raised

\* lines 113-119: does the frame count pass (an integer, and at least 1)
ValidSteps(s) == ~int(s).raised /\ int(s).number >= 1

\* lines 93-119 on thread t: save is what the branch taken read from
\* gui.save_acquisitions, name what save_file_entry held (read only when
\* saving), steps what the entry of the frame count held; a refusal shows its
\* message and returns through the finally block
Validate(t, save, name, steps) ==
    LET a == [read |-> TRUE, save |-> save,
              name |-> IF save THEN name ELSE "unread", steps |-> steps]
    IN  IF save /\ name = ""
        THEN [t EXCEPT !.pc = "A132", !.rejected = TRUE, !.asked = a,
                       !.notice = Append(@,
                          <<"Error", "Please specify a valid TIFF filename.">>)]
        ELSE IF ~ValidSteps(steps)
        THEN [t EXCEPT !.pc = "A132", !.rejected = TRUE, !.asked = a,
                       !.notice = Append(@,
                          <<"Error", "Invalid number of steps.">>)]
        ELSE [t EXCEPT !.pc = "A121", !.asked = a,
                       !.numshifts = int(steps).number,
                       !.filename = IF save THEN "name" ELSE "None"]

\* a statement of thread t raises an exception whose text is e
Throw(t, e) == [t EXCEPT !.exc = e, !.thrown = Append(@, e)]

\* (mutant) a message that names the operation but not the exception
Format_withoutText(prefix, e) == <<prefix>>

\* lines 73, 130, 168: f'<prefix>{e}', the literal part then str(e)
Format(prefix, e) == <<prefix, e>>

\* lines 181, 196: str(e)
Str(e) == <<e>>

\* an except clause of thread t caught the exception in flight and called
\* messagebox.showerror with message m
Show(t, m) == [t EXCEPT !.exc = "none", !.shown = Append(@, m)]

\* what the claim about the choice of scan tests: RPOC is enabled in the
\* interface and a mask is loaded (recorded while a hardware scan runs)
RpocOn(k, enabled, mask) == k \in HwKinds /\ enabled /\ mask

\* scan, lines 59-68: which scan the loop body calls; "none" when the mode
\* is read as neither 'standard' (line 63) nor 'variable' (line 65)
SelectScan(sim, enabled, mask, mode1, mode2) ==
    IF sim THEN "sim"
    ELSE IF enabled /\ mask
         THEN IF mode1 = "standard" THEN "rpoc"
              ELSE IF mode2 = "variable" THEN "variable"
              ELSE "none"
         ELSE "raster"

\* acquire_hyperspectral, lines 200-209: the mask alone decides
SelectScanHyper(sim, mask, mode1, mode2) ==
    IF sim THEN "sim"
    ELSE IF mask
         THEN IF mode1 = "standard" THEN "rpoc"
              ELSE IF mode2 = "variable" THEN "variable"
              ELSE "none"
         ELSE "raster"

\* the scan chosen at lines 59-68 / 149-158 under one reading of the
\* settings, with what the settings said about RPOC
Choice(sim, enabled, mask, mode1, mode2) ==
    LET k == SelectScan(sim, enabled, mask, mode1, mode2)
    IN  [kind |-> k, rpoc_on |-> RpocOn(k, enabled, mask)]

\* the same at lines 200-209 (enabled is what gui.rpoc_enabled holds then;
\* these lines never read it)
ChoiceHyper(sim, enabled, mask, mode1, mode2) ==
    LET k == SelectScanHyper(sim, mask, mode1, mode2)
    IN  [kind |-> k, rpoc_on |-> RpocOn(k, enabled, mask)]

\* the state stop_scan and the finally blocks put the buttons in
IdleButtons == [continuous |-> "normal", single |-> "normal", stop |-> "disabled"]

\* the state start_scan and acquire put the buttons in
BusyButtons == [continuous |-> "disabled", single |-> "disabled", stop |-> "normal"]

\* the interface at rest
InitGui ==
    /\ running = FALSE
    /\ acquiring = FALSE
    /\ button = IdleButtons

\* continuous mode: MaxWorkers thread slots, acquire is never called
InitScan ==
    /\ InitGui
    /\ worker = [w \in Workers |-> NoWorker]
    /\ acq = [NoAcquire EXCEPT !.pc = "off"]

\* acquire beside continuous mode: one thread slot for scan
InitAcquire ==
    /\ InitGui
    /\ worker = [w \in Workers |-> IF w = 1 THEN NoWorker
                                    ELSE [NoWorker EXCEPT !.pc = "off"]]
    /\ acq = NoAcquire

\* continuous mode with one thread slot for scan, acquire is never called
InitStart ==
    /\ InitGui
    /\ worker = [w \in Workers |-> IF w = 1 THEN NoWorker
                                    ELSE [NoWorker EXCEPT !.pc = "off"]]
    /\ acq = [NoAcquire EXCEPT !.pc = "off"]

\* a thread slot is free before its thread is created and after scan returned
Free(w) == worker[w].pc \in {"none", "done"}

\* is this thread inside a hardware transaction
InTransaction(t) == t.pc \in {"txn", "Mtxn", "Htxn"} /\ t.kind \in HwKinds

\* ---- the interface thread ------------------------------------------------

\* the calls of start_scan are not followed (fn "off") or none was made yet
\* (fn "none")
NoUi ==
    [fn |-> "off", seq |-> 0, found_running |-> FALSE, enabled |-> FALSE,
     mask |-> FALSE, shown |-> << >>]

\* a call of start_scan as the interface thread made it: what line 13 found
\* in gui.running, what line 19 read from gui.rpoc_enabled, whether line 20
\* found a mask (both FALSE when the call returned before reading them) and
\* the messages it showed; seq tells one call from the next
StartScanCall(found, enabled, mask, shown) ==
    IF ui.fn = "off"
    THEN ui
    ELSE [fn |-> "start_scan", seq |-> 1 - ui.seq, found_running |-> found,
          enabled |-> enabled, mask |-> mask, shown |-> shown]

\* (mutant) a start_scan that sets the flag and the buttons before it looks
\* for the mask
start_scan_flagBeforeMask ==
    /\ IF running
       THEN /\ ui' = StartScanCall(TRUE, FALSE, FALSE, << >>)
            /\ UNCHANGED acqOwn
       ELSE \E enabled \in BOOLEAN, mask \in BOOLEAN :
        IF enabled /\ ~mask
        THEN /\ ui' = StartScanCall(FALSE, enabled, mask,
                            << <<"Mask Error", "No valid mask loaded.">> >>)
             /\ running' = TRUE
             /\ button' = BusyButtons
             /\ UNCHANGED <<acquiring, worker, acq>>
        ELSE /\ \E x \in Workers : Free(x)
             /\ ui' = StartScanCall(FALSE, enabled, mask, << >>)
             /\ running' = TRUE
             /\ button' = BusyButtons
             /\ LET w == CHOOSE x \in Workers : Free(x)
                IN  worker' = [worker EXCEPT ![w] =
                        [NoWorker EXCEPT !.pc = "L49", !.mask = enabled /\ mask]]
             /\ UNCHANGED <<acquiring, acq>>
    /\ UNCHANGED <<txnOwn, recon, enc, sav, viewer>>

\* start_scan, lines 12-37
start_scan ==
    /\ IF running
       THEN /\ ui' = StartScanCall(TRUE, FALSE, FALSE, << >>)
            /\ UNCHANGED acqOwn                          \* line 14
       ELSE \E enabled \in BOOLEAN, mask \in BOOLEAN :
        IF enabled /\ ~mask
        THEN /\ ui' = StartScanCall(FALSE, enabled, mask,  \* lines 24-25
                            << <<"Mask Error", "No valid mask loaded.">> >>)
             /\ UNCHANGED acqOwn
        ELSE /\ \E x \in Workers : Free(x)
             /\ ui' = StartScanCall(FALSE, enabled, mask, << >>)
             /\ running' = TRUE                          \* line 27
             /\ button' = BusyButtons                    \* lines 28-30
             /\ LET w == CHOOSE x \in Workers : Free(x)  \* lines 32-37
                IN  worker' = [worker EXCEPT ![w] =
                        [NoWorker EXCEPT !.pc = "L49", !.mask = enabled /\ mask]]
             /\ UNCHANGED <<acquiring, acq>>
    /\ UNCHANGED <<txnOwn, recon, enc, sav, viewer>>

\* (mutant) a stop that also tears down the transactions in flight
stop_scan_interrupting ==
    /\ running' = FALSE
    /\ acquiring' = FALSE
    /\ button' = IdleButtons
    /\ worker' = [w \in DOMAIN worker |->
            IF worker[w].pc = "txn"
            THEN [worker[w] EXCEPT !.pc = "L72", !.kind = "none", !.raised = TRUE]
            ELSE worker[w]]
    /\ acq' = IF acq.pc = "Mtxn"
              THEN [acq EXCEPT !.pc = "M167", !.kind = "none", !.raised = @ \cup {acq.i}]
              ELSE acq
    /\ UNCHANGED txnVars

\* stop_scan, lines 40-45
stop_scan ==
    /\ running' = FALSE
    /\ acquiring' = FALSE
    /\ button' = IdleButtons
    /\ UNCHANGED <<worker, acq, txnVars>>

\* ---- scan, on a worker thread --------------------------------------------

SetW(w, r) == worker' = [worker EXCEPT ![w] = r]

\* line 49: while gui.running; what data_list holds at the start of an
\* iteration comes from an earlier one
scan_while(w) ==
    /\ worker[w].pc = "L49"
    /\ IF running
       THEN SetW(w, [worker[w] EXCEPT !.pc = "L50",
                        !.data = IF @ = "unbound" THEN "unbound" ELSE "stale"])
       ELSE SetW(w, [worker[w] EXCEPT !.pc = "L75"])
    /\ UNCHANGED <<guiVars, acq, txnVars>>

\* lines 50-68: update_config and Galvo(...) (either may raise), then the
\* scan the settings select is called
scan_call(w) ==
    /\ worker[w].pc = "L50"
    /\ \/ SetW(w, Throw([worker[w] EXCEPT !.pc = "L72"], "ConfigError"))
       \/ \E c \in {Choice(sim, enabled, worker[w].mask, m1, m2) :
                        sim \in BOOLEAN, enabled \in BOOLEAN,
                        m1 \in Modes, m2 \in Modes} :
            IF c.kind = "none"
            THEN SetW(w, [worker[w] EXCEPT !.pc = "L70"])
            ELSE SetW(w, [worker[w] EXCEPT !.pc = "txn", !.kind = c.kind,
                                           !.rpoc_on = c.rpoc_on])
    /\ UNCHANGED <<guiVars, acq, txnVars>>

\* the scan called at lines 60-68 returns its images
scan_txn_done(w) ==
    /\ worker[w].pc = "txn"
    /\ SetW(w, [worker[w] EXCEPT !.pc = "L70", !.kind = "none",
                    !.rpoc_on = FALSE, !.data = "fresh"])
    /\ UNCHANGED <<guiVars, acq, txnVars>>

\* the scan called at lines 60-68 raises (timeout, driver error)
scan_txn_raise(w) ==
    /\ worker[w].pc = "txn"
    /\ SetW(w, Throw([worker[w] EXCEPT !.pc = "L72", !.kind = "none",
                        !.rpoc_on = FALSE, !.raised = TRUE], "DaqError"))
    /\ UNCHANGED <<guiVars, acq, txnVars>>

\* line 70: gui.root.after(0, display_data, gui, data_list); data_list is
\* unbound when no branch has assigned it yet
scan_after(w) ==
    /\ worker[w].pc = "L70"
    /\ IF worker[w].data = "unbound"
       THEN SetW(w, Throw([worker[w] EXCEPT !.pc = "L72"], "UnboundLocalError"))
       ELSE SetW(w, [worker[w] EXCEPT !.pc = "L49"])
    /\ UNCHANGED <<guiVars, acq, txnVars>>

\* lines 72-73: except Exception: messagebox.showerror
scan_except(w) ==
    /\ worker[w].pc = "L72"
    /\ SetW(w, Show([worker[w] EXCEPT !.pc = "L75", !.reported = TRUE],
                    Format("Cannot display data: ", worker[w].exc)))
    /\ UNCHANGED <<guiVars, acq, txnVars>>

\* line 75: finally: gui.running = False
scan_finally_running(w) ==
    /\ worker[w].pc = "L75"
    /\ running' = FALSE
    /\ SetW(w, [worker[w] EXCEPT !.pc = "L76"])
    /\ UNCHANGED <<acquiring, button, acq, txnVars>>

\* lines 76-78: the three button states, one store each; scan returns after
\* the last
scan_finally_button(w) ==
    /\ worker[w].pc \in {"L76", "L77", "L78"}
    /\ button' = [button EXCEPT
            ![CASE worker[w].pc = "L76" -> "continuous"
                [] worker[w].pc = "L77" -> "single"
                [] OTHER -> "stop"] =
                    IF worker[w].pc = "L78" THEN "disabled" ELSE "normal"]
    /\ SetW(w, [worker[w] EXCEPT !.pc =
            CASE worker[w].pc = "L76" -> "L77"
              [] worker[w].pc = "L77" -> "L78"
              [] OTHER -> "done"])
    /\ UNCHANGED <<running, acquiring, acq, txnVars>>

\* ---- acquire, on its own thread ------------------------------------------

\* acquire(gui, startup) is called
acquire_call ==
    /\ acq.pc \in {"idle", "done"}
    /\ \E st \in BOOLEAN :
          acq' = [NoAcquire EXCEPT !.pc = "A82", !.startup = st]
    /\ UNCHANGED <<guiVars, worker, txnVars>>

\* lines 82-83: if gui.running and not startup: return
acquire_guard ==
    /\ acq.pc = "A82"
    /\ acq' = [acq EXCEPT !.pc = IF running /\ ~acq.startup THEN "done" ELSE "A85"]
    /\ UNCHANGED <<guiVars, worker, txnVars>>

\* line 85: gui.acquiring = True
acquire_set_acquiring ==
    /\ acq.pc = "A85"
    /\ acquiring' = TRUE
    /\ acq' = [acq EXCEPT !.pc = "A86"]
    /\ UNCHANGED <<running, button, worker, txnVars>>

\* lines 86-88: the three button states, one store each
acquire_buttons ==
    /\ acq.pc \in {"A86", "A87", "A88"}
    /\ button' = [button EXCEPT
            ![CASE acq.pc = "A86" -> "stop"
                [] acq.pc = "A87" -> "continuous"
                [] OTHER -> "single"] =
                    IF acq.pc = "A86" THEN "normal" ELSE "disabled"]
    /\ acq' = [acq EXCEPT !.pc =
            CASE acq.pc = "A86" -> "A87"
              [] acq.pc = "A87" -> "A88"
              [] OTHER -> "A92"]
    /\ UNCHANGED <<running, acquiring, worker, txnVars>>

\* lines 92-119: update_config (may raise), then the frame count and the file
\* name are read and checked
acquire_parse ==
    /\ acq.pc = "A92"
    /\ \/ acq' = Throw([acq EXCEPT !.pc = "A129"], "ConfigError")
       \/ \E r \in {Validate(acq, save, name, steps) :
                        save \in BOOLEAN, name \in {"", "name"},
                        steps \in StepEntries} :
            acq' = r
    /\ UNCHANGED <<guiVars, worker, txnVars>>

\* line 121: if not gui.hyperspectral_enabled.get()
acquire_branch ==
    /\ acq.pc = "A121"
    /\ \E hyper \in BOOLEAN :
          acq' = [acq EXCEPT !.pc = IF hyper THEN "H173" ELSE "M139",
                             !.batch = IF hyper THEN "hyper" ELSE "multiple"]
    /\ UNCHANGED <<guiVars, worker, txnVars>>

\* acquire_multiple, lines 138-143: Galvo(gui.config) may raise
acquire_multiple_init ==
    /\ acq.pc = "M139"
    /\ \/ acq' = Throw([acq EXCEPT !.pc = "A129"], "ConfigError")
       \/ acq' = [acq EXCEPT !.pc = "M145", !.i = 0, !.images = << >>]
    /\ UNCHANGED <<guiVars, worker, txnVars>>

\* (mutant) a loop that never looks at gui.acquiring
LoopHead_ignoringFlag(body) ==
    IF acq.i = acq.numshifts
    THEN acq' = [acq EXCEPT !.pc = "A123", !.ret = "list"]
    ELSE acq' = [acq EXCEPT !.pc = body, !.i = @ + 1]

\* lines 145-147 / 190-192: the next frame, unless gui.acquiring was cleared;
\* line 170 / 218: return images
LoopHead(body) ==
    IF acq.i = acq.numshifts
    THEN acq' = [acq EXCEPT !.pc = "A123", !.ret = "list"]
    ELSE IF ~acquiring
    THEN acq' = [acq EXCEPT !.pc = "A123", !.ret = "list", !.broke = TRUE]
    ELSE acq' = [acq EXCEPT !.pc = body, !.i = @ + 1]

\* acquire_multiple, lines 145-147
acquire_multiple_for ==
    /\ acq.pc = "M145"
    /\ LoopHead("M149")
    /\ UNCHANGED <<guiVars, worker, txnVars>>

\* acquire_multiple, lines 149-158: the scan the settings select is called
acquire_multiple_call ==
    /\ acq.pc = "M149"
    /\ \E c \in {Choice(sim, enabled, mask, m1, m2) :
                    sim \in BOOLEAN, enabled \in BOOLEAN, mask \in BOOLEAN,
                    m1 \in Modes, m2 \in Modes} :
          IF c.kind = "none"
          THEN acq' = [acq EXCEPT !.pc = "M160"]
          ELSE acq' = [acq EXCEPT !.pc = "Mtxn", !.kind = c.kind,
                                  !.rpoc_on = c.rpoc_on]
    /\ UNCHANGED <<guiVars, worker, txnVars>>

\* the scan of frame i returns its images
acquire_multiple_txn_done ==
    /\ acq.pc = "Mtxn"
    /\ acq' = [acq EXCEPT !.pc = "M160", !.kind = "none",
                          !.rpoc_on = FALSE, !.data = acq.i,
                          !.ok = @ \cup {acq.i}]
    /\ UNCHANGED <<guiVars, worker, txnVars>>

\* the scan of frame i raises
acquire_multiple_txn_raise ==
    /\ acq.pc = "Mtxn"
    /\ acq' = Throw([acq EXCEPT !.pc = "M167", !.kind = "none",
                                !.rpoc_on = FALSE,
                                !.raised = @ \cup {acq.i}], "DaqError")
    /\ UNCHANGED <<guiVars, worker, txnVars>>

\* lines 160-166: the display handoff, then images.append; data_list is
\* unbound when no branch has assigned it yet
acquire_multiple_append ==
    /\ acq.pc = "M160"
    /\ IF acq.data = 0
       THEN acq' = Throw([acq EXCEPT !.pc = "M167"], "UnboundLocalError")
       ELSE acq' = [acq EXCEPT !.pc = "M145", !.images = Append(@, acq.data)]
    /\ UNCHANGED <<guiVars, worker, txnVars>>

\* lines 167-168: except Exception: messagebox.showerror; the loop goes on
acquire_multiple_except ==
    /\ acq.pc = "M167"
    /\ acq' = Show([acq EXCEPT !.pc = "M145", !.failed = @ \cup {acq.i}],
                    Format("Error acquiring images: ", acq.exc))
    /\ UNCHANGED <<guiVars, worker, txnVars>>

\* acquire_hyperspectral, lines 173-186: float() may raise; a failed stage
\* connection is reported and None returned
acquire_hyperspectral_init ==
    /\ acq.pc = "H173"
    /\ \/ acq' = Throw([acq EXCEPT !.pc = "A129"], "ValueError")
       \/ acq' = Show(Throw([acq EXCEPT !.pc = "A123", !.ret = "None",
                                  !.stage_error = TRUE], "StageError"),
                       Str("StageError"))
       \/ acq' = [acq EXCEPT !.pc = "H190", !.i = 0, !.images = << >>]
    /\ UNCHANGED <<guiVars, worker, txnVars>>

\* acquire_hyperspectral, lines 190-192
acquire_hyperspectral_for ==
    /\ acq.pc = "H190"
    /\ LoopHead("H194")
    /\ UNCHANGED <<guiVars, worker, txnVars>>

\* lines 175-178: the positions of a batch of numshifts frames, each named
\* by its place i in the list (start_val for i = 0, stop_val for the last)
positions(numshifts) == [k \in 1..numshifts |-> k - 1]

\* where the stage is: at the position of its last successful move, or
\* wherever it was (-1) before the first
StageAt(t) == IF t.moved = << >> THEN -1 ELSE t.moved[Len(t.moved)]

\* (mutant) a move whose failure is reported and the frame scanned anyway
acquire_hyperspectral_move_unchecked ==
    /\ acq.pc = "H194"
    /\ \/ acq' = Show(Throw([acq EXCEPT !.pc = "H199"], "StageError"),
                       Str("StageError"))
       \/ acq' = [acq EXCEPT !.pc = "H199",
                     !.moved = Append(@, positions(acq.numshifts)[acq.i])]
    /\ UNCHANGED <<guiVars, worker, txnVars>>

\* lines 193-197: the stage move to positions[i]; a failed move is reported
\* and None returned
acquire_hyperspectral_move ==
    /\ acq.pc = "H194"
    /\ \/ acq' = Show(Throw([acq EXCEPT !.pc = "A123", !.ret = "None",
                                  !.stage_error = TRUE], "StageError"),
                       Str("StageError"))
       \/ acq' = [acq EXCEPT !.pc = "H199",
                     !.moved = Append(@, positions(acq.numshifts)[acq.i])]
    /\ UNCHANGED <<guiVars, worker, txnVars>>

\* lines 199-209: Galvo(gui.config) may raise; the selected scan is called
acquire_hyperspectral_call ==
    /\ acq.pc = "H199"
    /\ \/ acq' = Throw([acq EXCEPT !.pc = "A129"], "ConfigError")
       \/ \E c \in {ChoiceHyper(sim, enabled, mask, m1, m2) :
                        sim \in BOOLEAN, enabled \in BOOLEAN, mask \in BOOLEAN,
                        m1 \in Modes, m2 \in Modes} :
            IF c.kind = "none"
            THEN acq' = [acq EXCEPT !.pc = "H210"]
            ELSE acq' = [acq EXCEPT !.pc = "Htxn", !.kind = c.kind,
                                    !.rpoc_on = c.rpoc_on,
                                    !.scanned = Append(@,
                                        [frame |-> acq.i, at |-> StageAt(acq)])]
    /\ UNCHANGED <<guiVars, worker, txnVars>>

\* the scan at position i returns its images
acquire_hyperspectral_txn_done ==
    /\ acq.pc = "Htxn"
    /\ acq' = [acq EXCEPT !.pc = "H210", !.kind = "none",
                          !.rpoc_on = FALSE, !.data = acq.i,
                          !.ok = @ \cup {acq.i}]
    /\ UNCHANGED <<guiVars, worker, txnVars>>

\* the scan at position i raises: nothing in acquire_hyperspectral catches
\* it, so it leaves the function and reaches the except of acquire
acquire_hyperspectral_txn_raise ==
    /\ acq.pc = "Htxn"
    /\ acq' = Throw([acq EXCEPT !.pc = "A129", !.kind = "none",
                                !.rpoc_on = FALSE,
                                !.raised = @ \cup {acq.i}], "DaqError")
    /\ UNCHANGED <<guiVars, worker, txnVars>>

\* lines 210-216: the display handoff, then images.append
acquire_hyperspectral_append ==
    /\ acq.pc = "H210"
    /\ IF acq.data = 0
       THEN acq' = Throw([acq EXCEPT !.pc = "A129"], "UnboundLocalError")
       ELSE acq' = [acq EXCEPT !.pc = "H190", !.images = Append(@, acq.data)]
    /\ UNCHANGED <<guiVars, worker, txnVars>>

\* lines 123-124 / 127-128: if gui.save_acquisitions.get() and images:
\* save_images(gui, images, filename), which may raise (and does for a
\* filename of None)
acquire_save ==
    /\ acq.pc = "A123"
    /\ \E save \in BOOLEAN :
          IF save /\ acq.ret = "list" /\ acq.images # << >>
          THEN \/ acq' = Throw([acq EXCEPT !.pc = "A129"], "SaveError")
               \/ /\ acq.filename = "name"
                  /\ acq' = [acq EXCEPT !.pc = "A132", !.saved = TRUE]
          ELSE acq' = [acq EXCEPT !.pc = "A132"]
    /\ UNCHANGED <<guiVars, worker, txnVars>>

\* lines 129-130: except Exception: messagebox.showerror
acquire_except ==
    /\ acq.pc = "A129"
    /\ acq' = Show([acq EXCEPT !.pc = "A132", !.reported = TRUE],
                    Format("Cannot collect/save data: ", acq.exc))
    /\ UNCHANGED <<guiVars, worker, txnVars>>

\* line 132: finally: gui.acquiring = False
acquire_finally_acquiring ==
    /\ acq.pc = "A132"
    /\ acquiring' = FALSE
    /\ acq' = [acq EXCEPT !.pc = "A133"]
    /\ UNCHANGED <<running, button, worker, txnVars>>

\* lines 133-135: the three button states, one store each; acquire returns
\* after the last
acquire_finally_button ==
    /\ acq.pc \in {"A133", "A134", "A135"}
    /\ button' = [button EXCEPT
            ![CASE acq.pc = "A133" -> "continuous"
                [] acq.pc = "A134" -> "single"
                [] OTHER -> "stop"] =
                    IF acq.pc = "A135" THEN "disabled" ELSE "normal"]
    /\ acq' = [acq EXCEPT !.pc =
            CASE acq.pc = "A133" -> "A134"
              [] acq.pc = "A134" -> "A135"
              [] OTHER -> "done"]
    /\ UNCHANGED <<running, acquiring, worker, txnVars>>

\* one step of scan worker w; a scan that was called returns or raises
WorkerStep(w) ==
    \/ scan_while(w)
    \/ scan_call(w)
    \/ scan_txn_done(w)
    \/ scan_txn_raise(w)
    \/ scan_after(w)
    \/ scan_except(w)
    \/ scan_finally_running(w)
    \/ scan_finally_button(w)

NextScan ==
    \/ start_scan
    \/ stop_scan
    \/ \E w \in Workers :
        \/ scan_while(w)
        \/ scan_call(w)
        \/ scan_txn_done(w)
        \/ scan_txn_raise(w)
        \/ scan_after(w)
        \/ scan_except(w)
        \/ scan_finally_running(w)
        \/ scan_finally_button(w)

\* one step of the acquire thread after it was called
AcquireStep ==
    \/ acquire_guard
    \/ acquire_set_acquiring
    \/ acquire_buttons
    \/ acquire_parse
    \/ acquire_branch
    \/ acquire_multiple_init
    \/ acquire_multiple_for
    \/ acquire_multiple_call
    \/ acquire_multiple_txn_done
    \/ acquire_multiple_txn_raise
    \/ acquire_multiple_append
    \/ acquire_multiple_except
    \/ acquire_hyperspectral_init
    \/ acquire_hyperspectral_for
    \/ acquire_hyperspectral_move
    \/ acquire_hyperspectral_call
    \/ acquire_hyperspectral_txn_done
    \/ acquire_hyperspectral_txn_raise
    \/ acquire_hyperspectral_append
    \/ acquire_save
    \/ acquire_except
    \/ acquire_finally_acquiring
    \/ acquire_finally_button

NextAcquire ==
    \/ acquire_call
    \/ acquire_guard
    \/ acquire_set_acquiring
    \/ acquire_buttons
    \/ acquire_parse
    \/ acquire_branch
    \/ acquire_multiple_init
    \/ acquire_multiple_for
    \/ acquire_multiple_call
    \/ acquire_multiple_txn_done
    \/ acquire_multiple_txn_raise
    \/ acquire_multiple_append
    \/ acquire_multiple_except
    \/ acquire_hyperspectral_init
    \/ acquire_hyperspectral_for
    \/ acquire_hyperspectral_move
    \/ acquire_hyperspectral_call
    \/ acquire_hyperspectral_txn_done
    \/ acquire_hyperspectral_txn_raise
    \/ acquire_hyperspectral_append
    \/ acquire_save
    \/ acquire_except
    \/ acquire_finally_acquiring
    \/ acquire_finally_button

\* ========================================================================
\* Part III. new_mains/run_image_2d.py, raster_scan lines 11-12 and 50-74
\* ========================================================================
\* The reconstruction is followed on its own: the channels deliver their
\* samples (line 50), then lines 52-74 turn them into one image per channel.
\* A sample is an integer and a mean is kept as the exact quotient
\* sum / count.

Min(a, b) == IF a < b THEN a ELSE b

RECURSIVE SumSeq(_)
SumSeq(q) == IF q = << >> THEN 0 ELSE q[1] + SumSeq(Tail(q))

\* the galvo objects of the model: total_x and total_y as the scan grid
\* with its turnaround columns
Galvos ==
    {[numsteps_x |-> t[1], numsteps_y |-> t[2],
      extrasteps_left |-> t[3], extrasteps_right |-> t[4],
      pixel_samples |-> t[5],
      total_x |-> t[1] + t[3] + t[4], total_y |-> t[2]] :
        t \in (1..MaxStepsX) \X (1..MaxStepsY) \X (0..MaxExtra)
                \X (0..MaxExtra) \X (1..MaxPixelSamples)}

\* galvo.total_samples
total_samples(g) == g.total_x * g.total_y * g.pixel_samples

\* the physical input channels
Channels == 1..MaxChans

\* lists of distinct channels, in any order
ChannelLists ==
    {q \in UNION {[1..n -> Channels] : n \in 1..MaxChans} :
        \A i \in DOMAIN q, j \in DOMAIN q : i # j => q[i] # q[j]}

\* what a caller can pass as ai_channels: one channel name, or a list
ChannelArgs ==
    {[type |-> "str", value |-> ch] : ch \in Channels}
    \cup {[type |-> "list", value |-> q] : q \in ChannelLists}

\* what is in front of the detectors during the frame
Signals == {"grid", "index", "mixed"}

\* the sample channel ch delivers at position i (from 1) of the frame: the
\* scan visits the total_x * total_y pixels row by row and stays
\* pixel_samples samples on each
Voltage(sig, ch, g, i) ==
    LET k == (i - 1) % g.pixel_samples
        p == (i - 1) \div g.pixel_samples
        r == p \div g.total_x
        c == p % g.total_x
        flat == 10 * r + c + 100 * (ch - 1)
    IN  CASE sig = "grid" -> flat
          [] sig = "index" -> i + 100 * (ch - 1)
          [] OTHER -> IF (r + c) % 2 = 0 THEN flat ELSE 7 * i + k + ch

\* lines 11-12: a single channel name becomes a one-element list
Normalise(a) == IF a.type = "str" THEN <<a.value>> ELSE a.value

\* line 50: np.array(ai_task.read(number_of_samples_per_channel=n)): one row
\* of n samples per channel of the task, in the order the channels were
\* added; a task with a single channel gives the row itself
read(sig, chans, g, n) ==
    LET row(ch) == [i \in 1..n |-> Voltage(sig, ch, g, i)]
    IN  IF Len(chans) = 1 THEN row(chans[1])
        ELSE [j \in DOMAIN chans |-> row(chans[j])]

\* a.reshape(d1, d2, d3) of a flat array of d1 * d2 * d3 elements (C order)
reshape(a, d1, d2, d3) ==
    [r \in 1..d1 |-> [c \in 1..d2 |-> [k \in 1..d3 |->
        a[((r - 1) * d2 + (c - 1)) * d3 + k]]]]

\* np.mean(a, axis=2): the mean of each innermost group, as sum / count
mean(a) ==
    [r \in DOMAIN a |-> [c \in DOMAIN a[r] |->
        [num |-> SumSeq(a[r][c]), den |-> Len(a[r][c])]]]

\* a[:, x1:x2]: the columns x1 .. x2 - 1 (from 0) of every row, the slice
\* cut off at the row's end
columns(a, x1, x2) ==
    [r \in DOMAIN a |->
        LET lo == Min(x1, Len(a[r]))
            hi == Min(x2, Len(a[r]))
        IN  [j \in 1..(hi - lo) |-> a[r][lo + j]]]

\* lines 55-56 / 66-67
data2d(chan_data, g) ==
    mean(reshape(chan_data, g.total_y, g.total_x, g.pixel_samples))

\* (mutant) only the left turnaround columns dropped
cropped_leftOnly(d, g) == columns(d, g.extrasteps_left, g.total_x)

\* (mutant) the crop taken from column 0
cropped_fromZero(d, g) == columns(d, 0, g.numsteps_x)

\* lines 59-61 / 69-71
cropped(d, g) ==
    columns(d, g.extrasteps_left, g.extrasteps_left + g.numsteps_x)

\* (mutant) pixel groups cut one sample late, reaching into the next pixel
grouped_shifted(acq_data, n_ch, g) ==
    LET shifted(a) == [i \in DOMAIN a |-> a[Min(i + 1, Len(a))]]
    IN  IF n_ch = 1 THEN <<data2d(shifted(acq_data), g)>>
        ELSE [i \in 1..n_ch |-> data2d(shifted(acq_data[i]), g)]

\* (mutant) every image built from the first row of acq_data
grouped_firstChannel(acq_data, n_ch, g) ==
    IF n_ch = 1 THEN <<data2d(acq_data, g)>>
    ELSE [i \in 1..n_ch |-> data2d(acq_data[1], g)]

\* lines 52-56 / 65-67: with one channel acq_data is the row itself,
\* otherwise row i belongs to channel i
grouped(acq_data, n_ch, g) ==
    IF n_ch = 1 THEN <<data2d(acq_data, g)>>
    ELSE [i \in 1..n_ch |-> data2d(acq_data[i], g)]

NoRecon ==
    [pc |-> "idle", ai_channels |-> << >>, galvo |-> << >>, signal |-> "none",
     n_ch |-> 0, acq_data |-> << >>, data2d |-> << >>, results |-> << >>]

\* no reconstruction is being followed
ReconIdle == recon = NoRecon

\* raster_scan(ai_channels, galvo) is called
recon_call ==
    /\ recon.pc = "idle"
    /\ \E a \in ChannelArgs, g \in Galvos, sig \in Signals :
          recon' = [NoRecon EXCEPT !.pc = "L11", !.ai_channels = a,
                                   !.galvo = g, !.signal = sig]
    /\ UNCHANGED <<txnOwn, acqOwn, enc, tailVars>>

\* lines 11-50: the channel list, then the samples the transaction read
recon_read ==
    /\ recon.pc = "L11"
    /\ LET chans == Normalise(recon.ai_channels)
       IN  recon' = [recon EXCEPT !.pc = "L52",
                        !.n_ch = Len(chans),
                        !.acq_data = read(recon.signal, chans, recon.galvo,
                                          total_samples(recon.galvo))]
    /\ UNCHANGED <<txnOwn, acqOwn, enc, tailVars>>

\* lines 52-74: the images returned
recon_return ==
    /\ recon.pc = "L52"
    /\ LET d == grouped(recon.acq_data, recon.n_ch, recon.galvo)
       IN  recon' = [recon EXCEPT !.pc = "returned", !.data2d = d,
                        !.results = [i \in DOMAIN d |-> cropped(d[i], recon.galvo)]]
    /\ UNCHANGED <<txnOwn, acqOwn, enc, tailVars>>

NextRecon ==
    \/ recon_call
    \/ recon_read
    \/ recon_return

\* ========================================================================
\* Part IV. old_utils/run.py, raster_scan_rpoc and variable_scan_rpoc
\* ========================================================================
\* The single-mask branch of both functions (modulate not set): the mask
\* arrives as an image of numsteps_y x numsteps_x pixels, 0 or 255 each.

\* the values of a mask pixel
MaskValues == {0, 255}

\* the galvo objects of a scan with a mask
MaskGalvos ==
    {g \in Galvos : g.numsteps_x <= MaxMaskSteps /\ g.numsteps_y <= MaxMaskSteps}

\* the masks of numsteps_y x numsteps_x pixels
Masks(g) == [1..g.numsteps_y -> [1..g.numsteps_x -> MaskValues]]

\* (mutant) the turnaround columns of the two sides exchanged
concatenate_swapped(m, g, zero) ==
    [r \in 1..g.numsteps_y |->
        [i \in 1..g.extrasteps_right |-> zero] \o m[r]
            \o [i \in 1..g.extrasteps_left |-> zero]]

\* lines 129-136 / 223-230: for each of the numsteps_y rows,
\* np.concatenate((np.zeros(extrasteps_left), row_data,
\* np.zeros(extrasteps_right)))
concatenate(m, g, zero) ==
    [r \in 1..g.numsteps_y |->
        [i \in 1..g.extrasteps_left |-> zero] \o m[r]
            \o [i \in 1..g.extrasteps_right |-> zero]]

\* line 137: np.array(padded_mask, dtype=bool) of pixel values
astype_bool(a) == [r \in DOMAIN a |-> [c \in DOMAIN a[r] |-> a[r][c] # 0]]

\* lines 193, 221: mask > 128
threshold(a) == [r \in DOMAIN a |-> [c \in DOMAIN a[r] |-> a[r][c] > 128]]

\* lines 138 / 232: padded_mask.ravel(), the rows one after the other
ravel(a) ==
    LET w == Len(a[1])
    IN  [i \in 1..(Len(a) * w) |-> a[(i - 1) \div w + 1][((i - 1) % w) + 1]]

\* lines 139 / 233: np.repeat(flattened, n)
repeat(q, n) == [i \in 1..(Len(q) * n) |-> q[(i - 1) \div n + 1]]

\* the sample counts of the pixels of the full grid, row by row, in the
\* variable-dwell scan: dwell_multiplier * pixel_samples on a pixel the mask
\* flags, pixel_samples on every other
sample_counts(gen_mask, dm, g) ==
    [i \in 1..(g.total_x * g.total_y) |->
        LET r == (i - 1) \div g.total_x + 1
            c == ((i - 1) % g.total_x) + 1 - g.extrasteps_left
        IN  IF c \in 1..g.numsteps_x /\ gen_mask[r][c]
            THEN dm * g.pixel_samples
            ELSE g.pixel_samples]

\* line 195: the pixel_map of galvo.gen_variable_waveform(gen_mask,
\* dwell_multiplier): (start_offset, sample_count) per pixel, contiguous
gen_variable_waveform(gen_mask, dm, g) ==
    LET n == sample_counts(gen_mask, dm, g)
    IN  [i \in DOMAIN n |->
            [start_offset |-> SumSeq(SubSeq(n, 1, i - 1)), sample_count |-> n[i]]]

\* line 241: total_samps = len(x_wave), the length of the trajectory
len_x_wave(pixel_map) ==
    IF pixel_map = << >> THEN 0
    ELSE pixel_map[Len(pixel_map)].start_offset
            + pixel_map[Len(pixel_map)].sample_count

NoEnc ==
    [pc |-> "idle", fn |-> "none", mask |-> << >>, galvo |-> << >>,
     dwell_multiplier |-> 0, pixel_map |-> << >>, padded_mask |-> << >>,
     ttl_signal |-> << >>, samps_per_chan |-> << >>, written |-> << >>]

\* no encoding is being followed
EncIdle == enc = NoEnc

\* raster_scan_rpoc(ai_channels, galvo, mask) is called
raster_scan_rpoc_call ==
    /\ enc.pc = "idle"
    /\ \E g \in MaskGalvos : \E m \in Masks(g) :
          enc' = [NoEnc EXCEPT !.pc = "R124", !.fn = "raster_scan_rpoc",
                               !.galvo = g, !.mask = m]
    /\ UNCHANGED <<txnOwn, acqOwn, recon, tailVars>>

\* raster_scan_rpoc, lines 124-147: the signal is built, the DO task
\* configured for galvo.total_samples and the signal written to it
raster_scan_rpoc_encode ==
    /\ enc.pc = "R124"
    /\ LET padded == astype_bool(concatenate(enc.mask, enc.galvo, 0))
           signal == repeat(ravel(padded), enc.galvo.pixel_samples)
       IN  enc' = [enc EXCEPT !.pc = "returned",
                              !.padded_mask = padded,
                              !.ttl_signal = signal,
                              !.samps_per_chan = [do |-> total_samples(enc.galvo)],
                              !.written = signal]
    /\ UNCHANGED <<txnOwn, acqOwn, recon, tailVars>>

\* variable_scan_rpoc(ai_channels, galvo, mask, dwell_multiplier) is called
variable_scan_rpoc_call ==
    /\ enc.pc = "idle"
    /\ \E g \in MaskGalvos, dm \in 1..MaxDwell : \E m \in Masks(g) :
          enc' = [NoEnc EXCEPT !.pc = "V193", !.fn = "variable_scan_rpoc",
                               !.galvo = g, !.mask = m, !.dwell_multiplier = dm]
    /\ UNCHANGED <<txnOwn, acqOwn, recon, tailVars>>

\* variable_scan_rpoc, lines 193-195: the trajectory and its pixel_map
variable_scan_rpoc_plan ==
    /\ enc.pc = "V193"
    /\ enc' = [enc EXCEPT !.pc = "V219",
                  !.pixel_map = gen_variable_waveform(threshold(enc.mask),
                                    enc.dwell_multiplier, enc.galvo)]
    /\ UNCHANGED <<txnOwn, acqOwn, recon, tailVars>>

\* variable_scan_rpoc, lines 219-273: the signal is built, the three tasks
\* configured for total_samps = len(x_wave) and the signal written to DO
variable_scan_rpoc_encode ==
    /\ enc.pc = "V219"
    /\ LET padded == concatenate(threshold(enc.mask), enc.galvo, FALSE)
           signal == repeat(ravel(padded), enc.galvo.pixel_samples)
           total_samps == len_x_wave(enc.pixel_map)
       IN  enc' = [enc EXCEPT !.pc = "returned",
                              !.padded_mask = padded,
                              !.ttl_signal = signal,
                              !.samps_per_chan = [ao |-> total_samps,
                                                  ai |-> total_samps,
                                                  do |-> total_samps],
                              !.written = signal]
    /\ UNCHANGED <<txnOwn, acqOwn, recon, tailVars>>

NextMask ==
    \/ raster_scan_rpoc_call
    \/ raster_scan_rpoc_encode
    \/ variable_scan_rpoc_call
    \/ variable_scan_rpoc_plan
    \/ variable_scan_rpoc_encode

\* ========================================================================
\* Part V. save_images of mains/acquisition.py
\* ========================================================================
\* A path is the sequence of the pieces its string is put together from, so
\* two ways of spelling the same string give the same path.  Directories
\* (lines 223-225) play no part in the names and are left out.

\* the extensions os.path.splitext recognises among the file names used here
Extensions == {".tif"}

\* values of filename: what save_file_entry held, or None (lines 102, 112)
Filenames == {<<"out", ".tif">>, <<"out">>, <<"None">>}

\* line 227: os.path.splitext(filename)
splitext(filename) ==
    IF Len(filename) > 1 /\ filename[Len(filename)] \in Extensions
    THEN [base |-> SubSeq(filename, 1, Len(filename) - 1),
          ext |-> <<filename[Len(filename)]>>]
    ELSE [base |-> filename, ext |-> << >>]

\* labels gui.config['channel_names'] may hold
ChannelNames == {<<"a">>, <<"a", "_", "1">>, <<"b">>}

\* gui.config['ai_chans']: 'ai0', 'ai1', ...
AiChans == [i \in 1..MaxChans |-> <<"ai">> \o str(i - 1)]

\* the sequences over S of length at most n
SeqsUpTo(S, n) == UNION {[1..k -> S] : k \in 0..n}

\* the frames acquire hands over: n lists of c images, image c of frame f
Batch(n, c) == [f \in 1..n |-> [ch \in 1..c |-> <<f, ch>>]]

\* lines 236-241: the label of channel ch_idx (0-based)
channel_suffix(cfg, ch_idx) ==
    IF cfg.has_names /\ ch_idx < Len(cfg.channel_names)
    THEN cfg.channel_names[ch_idx + 1]
    ELSE IF ch_idx < Len(cfg.ai_chans)
    THEN cfg.ai_chans[ch_idx + 1]
    ELSE <<"chan">> \o str(ch_idx)

\* line 243: f"{base}_{channel_suffix}{ext}"
Path(base, suffix, ext) == base \o <<"_">> \o suffix \o ext

\* line 245: f"{base}_{channel_suffix}_{counter}{ext}"
CounterPath(base, suffix, counter, ext) ==
    base \o <<"_">> \o suffix \o <<"_">> \o str(counter) \o ext

\* lines 244-246: while os.path.exists(new_filename), the next counter
RECURSIVE Probe(_, _, _, _, _, _)
Probe(fs, new_filename, base, suffix, counter, ext) ==
    IF new_filename \in fs
    THEN Probe(fs, CounterPath(base, suffix, counter, ext),
               base, suffix, counter + 1, ext)
    ELSE new_filename

\* (mutant) the counter tried once, without looking again
new_filename_singleProbe(fs, base, suffix, ext) ==
    IF Path(base, suffix, ext) \in fs
    THEN CounterPath(base, suffix, 1, ext)
    ELSE Path(base, suffix, ext)

\* lines 233, 243-246: the path chosen for a channel, fs being the paths
\* that exist
new_filename(fs, base, suffix, ext) ==
    Probe(fs, Path(base, suffix, ext), base, suffix, 1, ext)

\* paths that may exist before the call
Candidates(base, ext) ==
    {Path(base, <<"a">>, ext),
     CounterPath(base, <<"a">>, 1, ext),
     CounterPath(base, <<"a">>, 2, ext),
     CounterPath(base, <<"a", "_", "1">>, 1, ext)}

NoSave ==
    [pc |-> "idle", filename |-> << >>, images |-> << >>,
     config |-> [has_names |-> FALSE, channel_names |-> << >>,
                 ai_chans |-> << >>],
     fs0 |-> {}, fs |-> {}, ch_idx |-> 0, written |-> << >>]

\* save_images is not being followed
SaveIdle == sav = NoSave

\* save_images(gui, images, filename) is called; lines 221-223: an empty
\* batch returns at once, a filename of None raises in os.path.dirname
\* (the files on disk are part of the input)
save_images_call ==
    /\ sav.pc = "idle"
    /\ \E n \in 0..MaxFrames, c \in 1..MaxChans, filename \in Filenames,
          has \in BOOLEAN, names \in SeqsUpTo(ChannelNames, MaxChans),
          nai \in 0..MaxChans :
          /\ ~has => names = << >>
          /\ \E fs \in SUBSET Candidates(splitext(filename).base,
                                          splitext(filename).ext) :
                sav' = [NoSave EXCEPT
                    !.pc = IF n = 0 THEN "returned"
                           ELSE IF filename = <<"None">> THEN "raised"
                           ELSE "loop",
                    !.filename = filename,
                    !.images = Batch(n, c),
                    !.config = [has_names |-> has, channel_names |-> names,
                                ai_chans |-> SubSeq(AiChans, 1, nai)],
                    !.fs0 = fs, !.fs = fs]
    /\ UNCHANGED <<txnOwn, acqOwn, recon, enc, viewer, ui>>

\* lines 231-258, one iteration: the frames of the channel, its label, the
\* first path that does not exist, the save, saved_fnames.append
save_images_channel ==
    /\ sav.pc = "loop"
    /\ sav.ch_idx < Len(sav.images[1])
    /\ LET channel_frames ==
                [f \in 1..Len(sav.images) |-> sav.images[f][sav.ch_idx + 1]]
           name == new_filename(sav.fs, splitext(sav.filename).base,
                                channel_suffix(sav.config, sav.ch_idx),
                                splitext(sav.filename).ext)
       IN  sav' = [sav EXCEPT
                !.written = Append(@, [path |-> name,
                                       existed |-> name \in sav.fs,
                                       frames |-> channel_frames]),
                !.fs = @ \cup {name},
                !.ch_idx = @ + 1]
    /\ UNCHANGED <<txnOwn, acqOwn, recon, enc, viewer, ui>>

\* lines 248-256: Image.save raises (the disk, the encoder)
save_images_raise ==
    /\ sav.pc = "loop"
    /\ sav.ch_idx < Len(sav.images[1])
    /\ sav' = [sav EXCEPT !.pc = "raised"]
    /\ UNCHANGED <<txnOwn, acqOwn, recon, enc, viewer, ui>>

\* lines 260-262: the loop is over; the names are shown and the call returns
save_images_return ==
    /\ sav.pc = "loop"
    /\ sav.ch_idx = Len(sav.images[1])
    /\ sav' = [sav EXCEPT !.pc = "returned"]
    /\ UNCHANGED <<txnOwn, acqOwn, recon, enc, viewer, ui>>

NextSave ==
    \/ save_images_call
    \/ save_images_channel
    \/ save_images_raise
    \/ save_images_return

\* ========================================================================
\* Part VI. The ROI editor, mains/pyqt_rpoc.py
\* ========================================================================
\* Every handler runs to its end on the interface thread before the next
\* event is taken.  An exception leaves the handler where it stands; whether
\* the process then goes on is for the interpreter's excepthook to decide,
\* and the model lets it go on.

\* line 41: self.roi_opacity = 0.4, in tenths
roi_opacity == 4

\* ImageViewer.__init__, lines 32-41, and QTableWidget(0, 5), line 254
NewViewer ==
    [drawing |-> FALSE, moved |-> FALSE,
     show_rois |-> TRUE, show_labels |-> TRUE,
     roi_items |-> << >>, roi_label_items |-> << >>, roi_table |-> << >>,
     made |-> 0, event |-> "none", exc |-> "none"]

\* the editor as it opens
ViewerIdle == viewer = NewViewer

\* list.pop(i) / removeRow(i), i counted from 1
RemoveAt(seq, i) == [j \in 1..(Len(seq) - 1) |-> IF j < i THEN seq[j] ELSE seq[j + 1]]

\* the least member of a non-empty set of numbers
First(S) == CHOOSE i \in S : \A j \in S : i <= j

\* roi.path().toSubpathPolygons(): one polygon, or none for a path that
\* never left its starting point (lineTo the current point adds nothing, and
\* a path of a single point has no polygon)
toSubpathPolygons(item) == IF item.empty THEN << >> ELSE <<item.id>>

\* lines 161-180: the label of a new ROI
create_roi_label(v, roi_index, id) ==
    [roi |-> id, text |-> str(roi_index),
     visible |-> v.show_rois /\ v.show_labels]

\* lines 198-214: a row is appended, its first item carrying idx
add_roi_to_table(table, idx) ==
    Append(table, [name |-> <<"ROI ">> \o str(idx), idx |-> idx])

\* (mutant) the ROI items are updated, the labels are not
update_roi_visibility_itemsOnly(v) ==
    [v EXCEPT !.roi_items =
        [i \in DOMAIN @ |->
            [@[i] EXCEPT !.opacity = IF v.show_rois THEN roi_opacity ELSE 0]]]

\* lines 192-196
update_roi_visibility(v) ==
    [v EXCEPT
        !.roi_items =
            [i \in DOMAIN @ |->
                [@[i] EXCEPT !.opacity = IF v.show_rois THEN roi_opacity ELSE 0]],
        !.roi_label_items =
            [i \in DOMAIN @ |->
                [@[i] EXCEPT !.visible = v.show_rois /\ v.show_labels]]]

\* mousePressEvent, right button, lines 66-76: a path is begun
mousePressEvent_begin ==
    /\ ~viewer.drawing
    /\ viewer.made < MaxRois
    /\ viewer' = [viewer EXCEPT !.drawing = TRUE, !.moved = FALSE,
                                !.event = "begin", !.exc = "none"]
    /\ UNCHANGED <<txnOwn, acqOwn, recon, enc, sav, ui>>

\* mouseMoveEvent, lines 139-157: the path grows by a point
mouseMoveEvent ==
    /\ viewer.drawing
    /\ viewer' = [viewer EXCEPT !.moved = TRUE, !.event = "move",
                                !.exc = "none"]
    /\ UNCHANGED <<txnOwn, acqOwn, recon, enc, sav, ui>>

\* mousePressEvent, right button, lines 77-103: the path is closed and the
\* ROI, its label and its table row are added; the path is a single point
\* when the mouse never moved and the second click falls on the first
mousePressEvent_complete ==
    /\ viewer.drawing
    /\ \E same \in BOOLEAN :
        LET new_index == Len(viewer.roi_items) + 1
            id == viewer.made + 1
            roi_item == [id |-> id,
                         opacity |-> IF viewer.show_rois THEN roi_opacity ELSE 0,
                         empty |-> ~viewer.moved /\ same]
        IN  viewer' = [viewer EXCEPT
                !.drawing = FALSE, !.moved = FALSE,
                !.roi_items = Append(@, roi_item),
                !.roi_label_items =
                    Append(@, create_roi_label(viewer, new_index, id)),
                !.roi_table = add_roi_to_table(@, new_index),
                !.made = id, !.event = "complete", !.exc = "none"]
    /\ UNCHANGED <<txnOwn, acqOwn, recon, enc, sav, ui>>

\* keyPressEvent, lines 183-185
keyPressEvent_M ==
    /\ viewer' = update_roi_visibility(
            [viewer EXCEPT !.show_rois = ~@, !.event = "M", !.exc = "none"])
    /\ UNCHANGED <<txnOwn, acqOwn, recon, enc, sav, ui>>

\* keyPressEvent, lines 186-188
keyPressEvent_N ==
    /\ viewer' = update_roi_visibility(
            [viewer EXCEPT !.show_labels = ~@, !.event = "N", !.exc = "none"])
    /\ UNCHANGED <<txnOwn, acqOwn, recon, enc, sav, ui>>

\* delete_roi_row(row), lines 360-404, row counted from 0: the row goes, the
\* first label whose text is the row's index goes with its ROI, the labels
\* are rewritten in order, the table is rebuilt; line 393 raises IndexError
\* at the first ROI left that has no polygon
delete_roi_row(row) ==
    LET roi_idx == viewer.roi_table[row + 1].idx
        table == RemoveAt(viewer.roi_table, row + 1)
        Matches == {i \in DOMAIN viewer.roi_label_items :
                        viewer.roi_label_items[i].text = str(roi_idx)}
        remove_i == IF Matches = {} THEN 0 ELSE First(Matches)
        items == IF remove_i = 0 THEN viewer.roi_items
                 ELSE RemoveAt(viewer.roi_items, remove_i)
        labels == IF remove_i = 0 THEN viewer.roi_label_items
                  ELSE RemoveAt(viewer.roi_label_items, remove_i)
        NoPolygon == {i \in DOMAIN items : toSubpathPolygons(items[i]) = << >>}
        last == IF NoPolygon = {} THEN Len(items) ELSE First(NoPolygon)
        raised == NoPolygon # {}
    IN  [viewer EXCEPT
            !.roi_items = items,
            !.roi_label_items =
                [i \in DOMAIN labels |->
                    IF i <= last THEN [labels[i] EXCEPT !.text = str(i)]
                    ELSE labels[i]],
            !.roi_table =
                IF raised THEN table
                ELSE [i \in DOMAIN items |->
                        [name |-> <<"ROI ">> \o str(i), idx |-> i]],
            !.event = "delete",
            !.exc = IF raised THEN "IndexError" ELSE "none"]

\* show_table_context_menu, lines 350-358: "Delete ROI" chosen on a row
show_table_context_menu ==
    /\ \E row \in 0..(Len(viewer.roi_table) - 1) :
          viewer' = delete_roi_row(row)
    /\ UNCHANGED <<txnOwn, acqOwn, recon, enc, sav, ui>>

NextViewer ==
    \/ mousePressEvent_begin
    \/ mouseMoveEvent
    \/ mousePressEvent_complete
    \/ keyPressEvent_M
    \/ keyPressEvent_N
    \/ show_table_context_menu

\* ========================================================================
\* Specifications
\* ========================================================================

\* no pure computation is being followed, the editor is as it opens
PureIdle == ReconIdle /\ EncIdle /\ SaveIdle /\ ViewerIdle

\* the calls of start_scan are not followed
UiOff == ui = NoUi

\* the calls of start_scan are followed, none was made yet
UiIdle == ui = [NoUi EXCEPT !.fn = "none"]

\* no transaction function of Part I is being followed, LineGrouping unbound
TxnIdle ==
    /\ call = NoCall
    /\ phase = "idle"
    /\ pc = 0
    /\ task = [k \in TaskNames |-> NoTask]
    /\ log = << >>
    /\ err = "none"
    /\ ttl_signal = << >>
    /\ lineGroupingBound = FALSE

InitSpecTxn == InitTxn /\ InitScan /\ PureIdle /\ UiOff

InitSpecScan == TxnIdle /\ InitScan /\ PureIdle /\ UiOff

InitSpecAcquire == TxnIdle /\ InitAcquire /\ PureIdle /\ UiOff

InitSpecRecon == TxnIdle /\ InitScan /\ PureIdle /\ UiOff

InitSpecMask == TxnIdle /\ InitScan /\ PureIdle /\ UiOff

InitSpecSave == TxnIdle /\ InitScan /\ PureIdle /\ UiOff

InitSpecViewer == TxnIdle /\ InitScan /\ PureIdle /\ UiOff

\* Part I alone: the threads of Part II stay where they start
SpecTxn == InitSpecTxn /\ [][NextTxn]_vars

\* continuous mode: the interface thread and the scan workers
SpecScan == InitSpecScan /\ [][NextScan]_vars

\* acquire, the interface thread and one scan worker
SpecAcquire == InitSpecAcquire /\ [][NextScan \/ NextAcquire]_vars

\* continuous mode with one scan worker, the calls of start_scan followed
InitSpecStart == TxnIdle /\ InitStart /\ PureIdle /\ UiIdle

SpecStart == InitSpecStart /\ [][NextScan]_vars

\* Part V alone: calls of save_images
SpecSave == InitSpecSave /\ [][NextSave]_vars

\* Part VI alone: the events of the ROI editor
SpecViewer == InitSpecViewer /\ [][NextViewer]_vars

\* continuous mode with threads that keep running: a worker thread that can
\* take a step takes one, and every scan it calls terminates; the user is
\* under no obligation to press anything
SpecScanFair == SpecScan /\ \A w \in Workers : WF_vars(WorkerStep(w))

\* a batch and the stop button: the acquire thread keeps running once
\* called, and every scan it calls terminates
NextBatch == stop_scan \/ NextAcquire

SpecBatchFair ==
    InitSpecAcquire /\ [][NextBatch]_vars /\ WF_vars(AcquireStep)

\* Part III alone
SpecRecon == InitSpecRecon /\ [][NextRecon]_vars

\* Part IV alone
SpecMask == InitSpecMask /\ [][NextMask]_vars

\* ------------------------------------------------------------------------
\* Properties of Part I
\* ------------------------------------------------------------------------

\* positions of the log before i holding a successful call op on task k
Earlier(i, op, k) ==
    \E j \in 1..(i - 1) : log[j] = [op |-> op, task |-> k, ok |-> TRUE]

Called(i, op, k) == log[i].op = op /\ log[i].task = k

TaskSet(fn) == {TasksOf(fn)[i] : i \in DOMAIN TasksOf(fn)}

C2_RasterScanSequence ==
    call.fn = "raster_scan" =>
        /\ \A i \in DOMAIN log :
            /\ Called(i, "write", "ao") =>
                  /\ Earlier(i, "cfg_samp_clk_timing", "ao")
                  /\ Earlier(i, "cfg_samp_clk_timing", "ai")
            /\ log[i].op = "start" => Earlier(i, "write", "ao")
            /\ Called(i, "start", "ao") => Earlier(i, "start", "ai")
            /\ log[i].op = "cfg_samp_clk_timing" =>
                  \A j \in 1..(i - 1) : log[j].op # "start"
        /\ \A k \in TaskNames :
            task[k].written /\ ~(\E i \in DOMAIN log : Called(i, "start", k))
                => ~task[k].started /\ ~task[k].auto_start
        /\ phase = "returned" =>
            /\ \E i \in DOMAIN log : Called(i, "start", "ao")
            /\ \A i \in DOMAIN log, j \in DOMAIN log :
                  Called(i, "start", "ao") /\ log[j].op = "start" => j <= i

\* a full raster_scan transaction has run: written, both tasks started
C2_Witness ==
    /\ call.fn = "raster_scan"
    /\ phase = "returned"
    /\ task["ao"].written /\ task["ao"].started /\ task["ai"].started

\* C5: when raster_scan or raster_scan_with_ttl has handed control back to
\* its caller, by returning or by raising, every task it created is released.
C5_TasksReleasedOnEveryExit ==
    phase \in {"returned", "raised"} =>
        \A k \in TaskNames : task[k].created => task[k].released

\* a wait timed out with all three tasks of the ttl transaction started
C5_Witness ==
    /\ call.fn = "raster_scan_with_ttl"
    /\ phase = "raised"
    /\ err = "timeout"
    /\ \A k \in TaskNames : task[k].created /\ task[k].started

\* C6: a read is issued only after wait_until_done has returned for every
\* task of the transaction, and after a wait that raised no read is issued.
C6_ReadOnlyAfterAllWaits ==
    \A i \in DOMAIN log :
        /\ log[i].op = "read" =>
              \A k \in TaskSet(call.fn) : Earlier(i, "wait_until_done", k)
        /\ (log[i].op = "wait_until_done" /\ ~log[i].ok) =>
              \A j \in DOMAIN log : log[j].op # "read"

\* the ttl transaction read its samples back
C6_Witness ==
    /\ call.fn = "raster_scan_with_ttl"
    /\ \E i \in DOMAIN log : log[i] = [op |-> "read", task |-> "ai", ok |-> TRUE]

\* C13 (as claimed): in raster_scan, raster_scan_with_ttl and
\* acquire_response only the AO task keeps the internally generated sample
\* clock; every other task whose timing is configured takes as its clock the
\* AO sample clock of the device whose AO channels the AO task drives, at
\* the rate of the AO task.
C13_ClockFromMasterDevice ==
    \A k \in TaskNames :
        task[k].samps > 0 =>
            IF k = "ao"
            THEN task[k].source = "internal"
            ELSE /\ task[k].source = "ao/SampleClock"
                 /\ task[k].clk_device = task["ao"].device
                 /\ task[k].rate = task["ao"].rate

\* C14: in raster_scan and raster_scan_with_ttl, once a task has been
\* started the samples-per-channel in force on every task of the transaction
\* is galvo.total_samples (the AO timing first set from the waveform length
\* has been replaced), and the read asks for galvo.total_samples per channel.
C14_SampleCountsAgree ==
    call.fn \in {"raster_scan", "raster_scan_with_ttl"} =>
        /\ (\E k \in TaskNames : task[k].started) =>
              \A k \in TaskSet(call.fn) : task[k].samps = call.total_samples
        /\ At("read") => Cur.samps = call.total_samples
        /\ \A i \in DOMAIN log :
              log[i].op = "read" => Body(call)[i].samps = call.total_samples

\* the ttl transaction has started its three tasks and is about to read,
\* the waveform being longer than galvo.total_samples
C14_Witness ==
    /\ call.fn = "raster_scan_with_ttl"
    /\ call.wave_len > call.total_samples
    /\ \A k \in TaskNames : task[k].started
    /\ At("read")

\* errors that come from the driver (a fault, or a wait that timed out)
DriverErrors == {"DaqError", "timeout"}

\* C21 (as claimed): a call of raster_scan_with_ttl during which the driver
\* reports no fault and every wait completes in time returns, having
\* configured and started the AO, AI and DO tasks and read the AI samples.
C21_TtlCompletesWithoutFault ==
    (call.fn = "raster_scan_with_ttl"
        /\ phase \in {"returned", "raised"}
        /\ err \notin DriverErrors) =>
        /\ phase = "returned"
        /\ \A k \in TaskNames :
              task[k].chans > 0 /\ task[k].samps > 0 /\ task[k].started
        /\ \E i \in DOMAIN log :
              log[i] = [op |-> "read", task |-> "ai", ok |-> TRUE]

\* C22: the TTL signal raster_scan_with_ttl builds has galvo.total_samples
\* values, each 0 or 1, and the value at 0-based index j is 1 exactly when
\* j < total_samples // 2 (at 1-based index i: exactly when 2 * i <= n).
C22_TtlSignalHalfHigh ==
    ttl_signal # << >> =>
        /\ Len(ttl_signal) = call.total_samples
        /\ \A i \in 1..Len(ttl_signal) :
              /\ ttl_signal[i] \in {0, 1}
              /\ ttl_signal[i] = 1 <=> 2 * i <= call.total_samples

\* the signal was built for an odd number of samples, above one
C22_Witness ==
    /\ call.fn = "raster_scan_with_ttl"
    /\ call.total_samples > 1
    /\ call.total_samples % 2 = 1
    /\ Len(ttl_signal) = call.total_samples
    /\ ttl_signal[1] = 1

\* ------------------------------------------------------------------------
\* Properties of Part II
\* ------------------------------------------------------------------------

\* the worker threads inside a hardware transaction
WorkersInTransaction == {w \in Workers : InTransaction(worker[w])}

\* the frames of S in acquisition order
InOrder(S) ==
    LET Member(k) == k \in S
    IN  SelectSeq([k \in 1..MaxShifts |-> k], Member)

\* acquire has left its try block (finally) or returned
AcquireEnding == acq.pc \in {"A132", "A133", "A134", "A135", "done"}

\* C3 (as claimed): at most one scan worker is inside a hardware transaction
\* at any time.
C3_AtMostOneTransaction == Cardinality(WorkersInTransaction) <= 1

\* C4 (as claimed): acquire called with startup=False does nothing when it
\* finds gui.running set, and never begins a hardware transaction while a
\* scan worker is inside one.
C4_AcquireNeverOverlapsScan ==
    [][/\ (acq.pc = "A82" /\ ~acq.startup /\ running /\ acq'.pc # "A82")
            => acq'.pc = "done" /\ UNCHANGED guiVars
       /\ (~acq.startup /\ ~InTransaction(acq) /\ InTransaction(acq'))
            => WorkersInTransaction = {}]_vars

\* C7 (as claimed): in acquire_multiple every frame whose scan raised is
\* reported, the loop ends only after the last frame or once gui.acquiring is
\* found cleared, and the list returned holds exactly the frames whose scan
\* succeeded, in acquisition order.
C7_MultipleContinuesPastFailure ==
    acq.batch = "multiple" =>
        /\ \A f \in acq.raised : f \in acq.failed \/ (acq.pc = "M167" /\ acq.i = f)
        /\ acq.ret = "list" =>
            /\ acq.i = acq.numshifts \/ acq.broke
            /\ acq.images = InOrder(acq.ok)

\* C8 (as claimed): in the hyperspectral batch a scan that raised does not
\* end the batch: acquire gets back the list of the frames whose scan
\* succeeded, after the last position or once gui.acquiring is found cleared.
C8_HyperspectralContinuesPastFailure ==
    (acq.batch = "hyper" /\ acq.raised # {} /\ AcquireEnding) =>
        /\ acq.ret = "list"
        /\ acq.i = acq.numshifts \/ acq.broke
        /\ acq.images = InOrder(acq.ok)

\* C9 (as claimed): a scan worker whose transaction raised begins no further
\* frame, and at the moment its scan returns gui.running is False, the
\* continuous and single buttons are enabled and the stop button disabled.
C9_FailureTerminatesStream ==
    [][\A w \in Workers :
        (worker[w].raised /\ worker[w].pc # "done") =>
            /\ worker'[w].pc \in {"L72", "L75", "L76", "L77", "L78", "done"}
            /\ worker'[w].pc = "done" =>
                  running' = FALSE /\ button' = IdleButtons]_vars

\* C10: a transaction in progress ends only by completing or raising; a step
\* that clears gui.running or gui.acquiring leaves every thread that is
\* inside a transaction inside it; and a loop is left for a cleared flag
\* only at its head (line 49, 146, 191).
C10_StopNeverInterrupts ==
    [][/\ \A w \in Workers :
            /\ worker[w].pc = "txn" => worker'[w].pc \in {"txn", "L70", "L72"}
            /\ (worker[w].pc = "txn" /\ ((running /\ ~running') \/ (acquiring /\ ~acquiring')))
                  => worker'[w] = worker[w]
            /\ (worker[w].pc # "L75" /\ worker'[w].pc = "L75")
                  => worker[w].pc \in {"L49", "L72"}
       /\ acq.pc = "Mtxn" => acq'.pc \in {"Mtxn", "M160", "M167"}
       /\ acq.pc = "Htxn" => acq'.pc \in {"Htxn", "H210", "A129"}
       /\ (acq.pc \in {"Mtxn", "Htxn"} /\ ((running /\ ~running') \/ (acquiring /\ ~acquiring')))
            => acq' = acq
       /\ (~acq.broke /\ acq'.broke) => acq.pc \in {"M145", "H190"}]_vars

\* stop_scan has been called while the scan worker and acquire_multiple are
\* both inside a transaction
C10_Witness ==
    /\ worker[1].pc = "txn" /\ ~running
    /\ acq.pc = "Mtxn" /\ ~acquiring

\* does message m carry the exception text e
Contains(m, e) == \E i \in DOMAIN m : m[i] = e

\* thread t has shown one message per exception it raised, each carrying the
\* text of its exception; an exception not yet shown is the one in flight,
\* and it is in flight only on the way to an except clause
Reported(t, handlers) ==
    /\ Len(t.shown) = Len(t.thrown) - (IF t.exc = "none" THEN 0 ELSE 1)
    /\ \A i \in DOMAIN t.shown : Contains(t.shown[i], t.thrown[i])
    /\ t.exc # "none" =>
          t.pc \in handlers /\ t.exc = t.thrown[Len(t.thrown)]

\* C11: every exception raised during a frame in scan, acquire,
\* acquire_multiple or acquire_hyperspectral is shown to the user in a
\* message that contains the text of the exception, and scan and acquire
\* return with no exception in flight.
C11_EveryExceptionReported ==
    /\ \A w \in Workers : Reported(worker[w], {"L72"})
    /\ Reported(acq, {"M167", "A129"})

\* acquire_multiple reported the failure of both its frames and returned,
\* and the scan worker reported the failure of its frame and returned
C11_Witness ==
    /\ acq.pc = "done" /\ acq.batch = "multiple"
    /\ acq.raised = {1, 2} /\ Len(acq.shown) = 2
    /\ worker[1].pc = "done" /\ worker[1].raised /\ Len(worker[1].shown) = 1

\* C12 (as claimed): in continuous mode every display handoff (line 70
\* returning, the loop going back to line 49) hands over the images of a scan
\* that completed in that same iteration, so each completed frame is handed
\* over once; a worker whose scan raised schedules no handoff after it.
C12_HandoffOncePerCompletedFrame ==
    [][\A w \in Workers :
        /\ (worker[w].pc = "L70" /\ worker'[w].pc = "L49")
              => worker[w].data = "fresh"
        /\ (worker[w].pc # "L70" /\ worker'[w].pc = "L70")
              => worker[w].pc \in {"txn", "L50"} /\ ~worker[w].raised]_vars

\* the threads that are inside a hardware scan
ThreadsInTransaction ==
    {worker[w] : w \in WorkersInTransaction}
        \cup (IF InTransaction(acq) THEN {acq} ELSE {})

\* C23 (as claimed): in scan, acquire_multiple and acquire_hyperspectral a
\* frame is scanned by raster_scan_rpoc or variable_scan_rpoc only if RPOC is
\* enabled in the interface and a mask is loaded; otherwise by raster_scan.
C23_MaskScanOnlyWhenEnabled ==
    \A t \in ThreadsInTransaction :
        IF t.rpoc_on THEN t.kind \in {"rpoc", "variable"}
        ELSE t.kind = "raster"

\* C24 (as claimed): once acquire has passed its guard on gui.running, then
\* however it leaves (early return, normal completion, exception) at the
\* moment it returns gui.acquiring is False, the stop button is disabled and
\* the continuous and single buttons are enabled.
C24_AcquireRestoresInterface ==
    [][(acq.pc \notin {"A82", "done"} /\ acq'.pc = "done") =>
            acquiring' = FALSE /\ button' = IdleButtons]_vars

\* C27 (as claimed): whatever the RPOC mode reads as, the list scan hands to
\* the display at line 70 and the list acquire_multiple hands over and
\* appends at lines 160-163 was assigned in that same loop iteration; no
\* list of an earlier frame is handed over or stored again.
C27_ListFromSameIteration ==
    [][/\ \A w \in Workers :
            (worker[w].pc = "L70" /\ worker'[w].pc = "L49")
                => worker[w].data = "fresh"
       /\ (acq.pc = "M160" /\ acq'.pc = "M145") =>
            /\ acq.data = acq.i
            /\ \A j \in DOMAIN acq.images : acq.images[j] # acq.data]_vars

\* acquire is inside the loop of acquire_multiple (lines 145-168)
InMultipleLoop ==
    acq.batch = "multiple" /\ acq.pc \in {"M145", "M149", "Mtxn", "M160", "M167"}

InScanLoop(w) == worker[w].pc \in {"L49", "L50", "txn", "L70"}

\* C26 (as claimed): a scan worker that is in its loop when gui.running has
\* been cleared leaves the loop, every scan terminating, whatever calls of
\* start_scan and stop_scan follow.
C26_StoppedWorkerExits ==
    \A w \in Workers : (InScanLoop(w) /\ ~running) ~> ~InScanLoop(w)

\* C31: a call of start_scan that finds RPOC enabled and no mask loaded
\* shows an error and changes nothing: gui.running stays False, no thread is
\* started, the buttons stay as they were; a call that finds gui.running set
\* changes nothing either, and starts no thread.
C31_RejectedStartChangesNothing ==
    [][(ui'.seq # ui.seq /\ ui'.fn = "start_scan") =>
        /\ ui'.found_running = running
        /\ ui'.found_running =>
              /\ UNCHANGED acqOwn
              /\ ui'.shown = << >>
        /\ (~ui'.found_running /\ ui'.enabled /\ ~ui'.mask) =>
              /\ UNCHANGED acqOwn
              /\ ~running'
              /\ Len(ui'.shown) = 1]_vars

\* start_scan was called with RPOC enabled and no mask after a stop that left
\* a worker inside its scan: the call showed its message, and the flag is
\* still clear with the buttons at rest
C31_Witness ==
    /\ ui.fn = "start_scan" /\ ~ui.found_running
    /\ ui.enabled /\ ~ui.mask /\ ui.shown # << >>
    /\ ~running /\ button = IdleButtons
    /\ \E w \in Workers : worker[w].pc = "txn"

\* the frame count is not an integer >= 1, or saving is on with no file name
Refusable(a) ==
    \/ a.steps \notin {str(n) : n \in 1..MaxShifts}
    \/ a.save /\ a.name = ""

\* C32: when the number of frames asked for is not an integer >= 1, or
\* saving is enabled and the file name is empty, acquire makes no hardware
\* transaction, moves no stage and saves nothing, and shows an error.
C32_InvalidRequestDoesNothing ==
    (acq.asked.read /\ Refusable(acq.asked)) =>
        /\ acq.pc \in {"A132", "A133", "A134", "A135", "done"}
        /\ Len(acq.notice) = 1
        /\ acq.batch = "none" /\ acq.kind = "none" /\ acq.i = 0
        /\ acq.ok = {} /\ acq.raised = {} /\ acq.thrown = << >>
        /\ ~acq.stage_error /\ ~acq.saved /\ acq.ret = "pending"

\* acquire returned after it refused a frame count of zero with saving off
C32_Witness ==
    /\ acq.pc = "done" /\ acq.rejected
    /\ ~acq.asked.save /\ acq.asked.steps = str(0)
    /\ acq.notice = << <<"Error", "Invalid number of steps.">> >>

\* C33: in acquire_hyperspectral the positions number exactly numshifts and
\* are visited in order; the scan of a frame begins only after a successful
\* move to the position of that frame; once the connection or a move failed
\* the function has returned None, no scan follows, and nothing is saved,
\* frames already acquired included.
C33_StageBeforeScan ==
    acq.batch = "hyper" =>
        /\ Len(positions(acq.numshifts)) = acq.numshifts
        /\ Len(acq.moved) <= acq.numshifts
        /\ \A k \in DOMAIN acq.moved : acq.moved[k] = k - 1
        /\ \A k \in DOMAIN acq.scanned :
              /\ acq.scanned[k].frame <= Len(acq.moved)
              /\ acq.scanned[k].at = acq.scanned[k].frame - 1
              /\ k > 1 => acq.scanned[k - 1].frame < acq.scanned[k].frame
        /\ acq.stage_error =>
              /\ acq.ret = "None"
              /\ acq.pc \in {"A123", "A132", "A133", "A134", "A135", "done"}
              /\ acq.kind = "none"
              /\ Len(acq.moved) = acq.i - 1 \/ (acq.i = 0 /\ acq.moved = << >>)
              /\ \A k \in DOMAIN acq.scanned : acq.scanned[k].frame < acq.i
              /\ ~acq.saved

\* acquire returned after the move to the second position failed: the frame
\* of the first position had been acquired, saving was on, nothing was saved
C33_Witness ==
    /\ acq.pc = "done" /\ acq.batch = "hyper" /\ acq.stage_error
    /\ acq.moved = <<0>> /\ Len(acq.scanned) = 1 /\ acq.images # << >>
    /\ acq.asked.save /\ ~acq.saved

\* ------------------------------------------------------------------------
\* Properties of Part III
\* ------------------------------------------------------------------------

\* the channels asked for, in the order asked
Requested == Normalise(recon.ai_channels)

\* the samples channel ch delivered while the scan was on the active pixel
\* in row r, column c (both from 1) of the image
PixelGroup(ch, r, c) ==
    LET g == recon.galvo
        first == ((r - 1) * g.total_x + g.extrasteps_left + (c - 1)) * g.pixel_samples
    IN  [k \in 1..g.pixel_samples |-> Voltage(recon.signal, ch, g, first + k)]

\* the mean m is exactly the number v
Exactly(m, v) == m.den > 0 /\ m.num = v * m.den

\* C15: every image the fixed-dwell reconstruction returns has numsteps_y
\* rows of numsteps_x columns, with one channel and with several.
C15_ImageShape ==
    recon.pc = "returned" =>
        /\ recon.results # << >>
        /\ \A i \in DOMAIN recon.results :
            /\ Len(recon.results[i]) = recon.galvo.numsteps_y
            /\ \A r \in DOMAIN recon.results[i] :
                  Len(recon.results[i][r]) = recon.galvo.numsteps_x

\* two channels were reconstructed from a grid with turnaround columns on
\* both sides
C15_Witness ==
    /\ recon.pc = "returned"
    /\ Len(recon.results) = 2
    /\ recon.galvo.extrasteps_left > 0 /\ recon.galvo.extrasteps_right > 0
    /\ recon.galvo.numsteps_x > 1 /\ recon.galvo.pixel_samples > 1

\* the configuration numsteps_x=4, numsteps_y=2, extrasteps_left=1,
\* extrasteps_right=1, pixel_samples=3 and a buffer of one channel whose
\* 36 samples are 10*r + c at column c, row r of the full grid
CropExample ==
    /\ recon.pc = "returned"
    /\ recon.galvo.numsteps_x = 4 /\ recon.galvo.numsteps_y = 2
    /\ recon.galvo.extrasteps_left = 1 /\ recon.galvo.extrasteps_right = 1
    /\ recon.galvo.pixel_samples = 3
    /\ recon.n_ch = 1
    /\ Len(recon.acq_data) = 36
    /\ \A i \in 1..36 :
          recon.acq_data[i] = 10 * ((i - 1) \div 18) + (((i - 1) \div 3) % 6)

\* C16: for that buffer the reconstruction returns the one image
\* [[1,2,3,4],[11,12,13,14]]; the means were taken over the 6 columns of
\* the full grid and columns 0 and 5 dropped from them.
C16_CropExample ==
    CropExample =>
        /\ Len(recon.results) = 1
        /\ Len(recon.results[1]) = 2
        /\ \A r \in 1..2 :
            /\ Len(recon.data2d[1][r]) = 6
            /\ Len(recon.results[1][r]) = 4
            /\ \A c \in 1..4 :
                /\ Exactly(recon.results[1][r][c], 10 * (r - 1) + c)
                /\ recon.results[1][r][c] = recon.data2d[1][r][c + 1]

\* the example has been reconstructed
C16_Witness == CropExample /\ recon.signal = "grid"

C18_OneImagePerChannel ==
    recon.pc = "returned" =>
        /\ Len(recon.results) = Len(Requested)
        /\ recon.ai_channels.type = "str" => Len(recon.results) = 1
        /\ \A i \in DOMAIN Requested :
            \A r \in 1..recon.galvo.numsteps_y, c \in 1..recon.galvo.numsteps_x :
                /\ recon.results[i][r][c].num = SumSeq(PixelGroup(Requested[i], r, c))
                /\ recon.results[i][r][c].den = recon.galvo.pixel_samples

\* channels 2 and 1 were requested, in this order
C18_Witness ==
    /\ recon.pc = "returned"
    /\ recon.ai_channels = [type |-> "list", value |-> <<2, 1>>]
    /\ Len(recon.results) = 2

\* ------------------------------------------------------------------------
\* Properties of Part IV
\* ------------------------------------------------------------------------

\* is the mask pixel in row r, column c set
MaskSet(r, c) == enc.mask[r][c] = 255

\* width of the padded grid
PaddedWidth ==
    enc.galvo.extrasteps_left + enc.galvo.numsteps_x + enc.galvo.extrasteps_right

\* C19: in raster_scan_rpoc every row of the padded grid has
\* extrasteps_left + numsteps_x + extrasteps_right columns, the first
\* extrasteps_left and the last extrasteps_right of them false whatever the
\* mask holds and the columns between them equal to the mask, and the signal
\* holds each cell of the padded grid pixel_samples times, row by row.
C19_MaskPadding ==
    (enc.pc = "returned" /\ enc.fn = "raster_scan_rpoc") =>
        LET g == enc.galvo
            left == g.extrasteps_left
        IN  /\ Len(enc.padded_mask) = g.numsteps_y
            /\ \A r \in 1..g.numsteps_y :
                /\ Len(enc.padded_mask[r]) = PaddedWidth
                /\ \A c \in 1..PaddedWidth :
                    enc.padded_mask[r][c] =
                        IF c <= left \/ c > left + g.numsteps_x
                        THEN FALSE
                        ELSE MaskSet(r, c - left)
            /\ Len(enc.ttl_signal) = g.numsteps_y * PaddedWidth * g.pixel_samples
            /\ \A r \in 1..g.numsteps_y, c \in 1..PaddedWidth, k \in 1..g.pixel_samples :
                  enc.ttl_signal[((r - 1) * PaddedWidth + (c - 1)) * g.pixel_samples + k]
                      = enc.padded_mask[r][c]
            /\ enc.written = enc.ttl_signal

\* a mask set in its first and last column, with a turnaround column on
\* the left only and several samples per pixel, has been encoded
C19_Witness ==
    /\ enc.pc = "returned" /\ enc.fn = "raster_scan_rpoc"
    /\ enc.galvo.extrasteps_left = 1 /\ enc.galvo.extrasteps_right = 0
    /\ enc.galvo.numsteps_x = 2 /\ enc.galvo.pixel_samples > 1
    /\ MaskSet(1, 1) /\ MaskSet(1, 2)

\* C20 (as claimed): in variable_scan_rpoc the signal written to the DO task
\* has one value per output sample: its length is the length of the
\* variable-dwell trajectory, which is the sample count configured on the
\* three tasks, and it holds each cell of the padded grid as many times as
\* the pixel_map gives samples to that pixel.
C20_SignalMatchesTrajectory ==
    (enc.pc = "returned" /\ enc.fn = "variable_scan_rpoc") =>
        /\ Len(enc.written) = len_x_wave(enc.pixel_map)
        /\ \A t \in DOMAIN enc.samps_per_chan :
              enc.samps_per_chan[t] = Len(enc.written)
        /\ \A i \in DOMAIN enc.pixel_map :
              \A k \in 1..enc.pixel_map[i].sample_count :
                  /\ enc.pixel_map[i].start_offset + k \in DOMAIN enc.written
                  /\ enc.written[enc.pixel_map[i].start_offset + k]
                        = ravel(enc.padded_mask)[i]

\* ------------------------------------------------------------------------
\* Properties of Part V
\* ------------------------------------------------------------------------

\* C28: save_images writes one file for each channel of the batch, holding
\* that channel's image of every frame in acquisition order; no path it
\* writes to existed when it was written, the paths of one call are pairwise
\* distinct, and none of them was there before the call.
C28_OneFreshFilePerChannel ==
    sav.pc \in {"loop", "raised", "returned"} /\ sav.images # << >> =>
        /\ \A k \in DOMAIN sav.written :
              /\ ~sav.written[k].existed
              /\ sav.written[k].path \notin sav.fs0
              /\ Len(sav.written[k].frames) = Len(sav.images)
              /\ \A f \in DOMAIN sav.images :
                    sav.written[k].frames[f] = <<f, k>>
        /\ \A j \in DOMAIN sav.written, k \in DOMAIN sav.written :
              j # k => sav.written[j].path # sav.written[k].path
        /\ sav.pc = "returned" => Len(sav.written) = Len(sav.images[1])

\* two channels carrying the same label were saved beside files of that name
C28_Witness ==
    /\ sav.pc = "returned"
    /\ Len(sav.images) = 2
    /\ Len(sav.written) = 2
    /\ channel_suffix(sav.config, 0) = channel_suffix(sav.config, 1)
    /\ Cardinality(sav.fs0) >= 2
    /\ sav.written[1].path # Path(splitext(sav.filename).base,
                                  channel_suffix(sav.config, 0),
                                  splitext(sav.filename).ext)

\* ------------------------------------------------------------------------
\* Properties of Part VI
\* ------------------------------------------------------------------------

\* C29 (as claimed): after any sequence of ROI completions and calls of
\* delete_roi_row, the ROI at position i (from 0) has a label whose text is
\* i + 1 and the table row at position i carries the index i + 1.
C29_LabelsAndRowsNumbered ==
    /\ \A i \in DOMAIN viewer.roi_items :
          /\ i \in DOMAIN viewer.roi_label_items
          /\ viewer.roi_label_items[i].text = str(i)
    /\ \A i \in DOMAIN viewer.roi_table : viewer.roi_table[i].idx = i

\* C30: every ROI item has opacity roi_opacity when show_rois is set and 0
\* otherwise, every label is visible exactly when show_rois and show_labels
\* are both set, the M key negates show_rois and leaves show_labels alone,
\* and the N key negates show_labels and leaves show_rois alone.
C30_VisibilityFollowsFlags ==
    /\ [](/\ \A i \in DOMAIN viewer.roi_items :
               viewer.roi_items[i].opacity =
                   IF viewer.show_rois THEN roi_opacity ELSE 0
          /\ \A i \in DOMAIN viewer.roi_label_items :
               viewer.roi_label_items[i].visible
                   <=> (viewer.show_rois /\ viewer.show_labels))
    /\ [][/\ keyPressEvent_M =>
               /\ viewer'.show_rois = ~viewer.show_rois
               /\ viewer'.show_labels = viewer.show_labels
          /\ keyPressEvent_N =>
               /\ viewer'.show_labels = ~viewer.show_labels
               /\ viewer'.show_rois = viewer.show_rois]_vars

\* two ROIs are left after a deletion and the labels have just been switched
\* off with N
C30_Witness ==
    /\ Len(viewer.roi_items) >= 2
    /\ viewer.show_rois /\ ~viewer.show_labels
    /\ viewer.event = "N"
    /\ \E i \in DOMAIN viewer.roi_items : viewer.roi_items[i].id # i

\* C34 (as claimed): after any sequence of ROI completions and calls of
\* delete_roi_row, roi_items, roi_label_items and the table have the same
\* length, and roi_label_items[i] is the label created for roi_items[i].
C34_ItemsLabelsRowsAligned ==
    /\ Len(viewer.roi_items) = Len(viewer.roi_label_items)
    /\ Len(viewer.roi_label_items) = Len(viewer.roi_table)
    /\ \A i \in DOMAIN viewer.roi_items :
          i \in DOMAIN viewer.roi_label_items
              => viewer.roi_label_items[i].roi = viewer.roi_items[i].id

====
